---- MODULE Spec2Model ----
(***************************************************************************)
(* Model of notion-md-gen's sync orchestrator (generator.Run) with its     *)
(* incremental cache, its serial page loop and its semaphore-bounded       *)
(* parallel page tasks (Spec), of the block renderer of package tomarkdown *)
(* (SpecRender) and of its rich-text renderer (SpecRich).                  *)
(*                                                                         *)
(* Strings are sequences of one-character strings; a path is the sequence  *)
(* of its characters with "/" as separator.                                *)
(***************************************************************************)
EXTENDS Integers, Sequences, FiniteSets, TLC

(***************************************************************************)
(* Bounds                                                                  *)
(***************************************************************************)
\* number of pages in the database
NumPages == 2

Pages == 1..NumPages

\* Run is started this many times in a behaviour
RunNumbers == {1, 2}

\* values of the --parallelism flag
ParallelismFlags == {0, 1, 2}

\* last-edited times of a page, in minutes
EditTimes == {0, 1}

\* titles a page can have: none, or "A"
Titles == {<< >>, <<"A">>}

\* keyword filters given on the command line
FilterArgSets == {<< >>, <<<<"a">>>>}

\* the since pointer: nil, or a cutoff time
NoSince == << >>
SinceValues == {NoSince, <<0>>}


(***************************************************************************)
(* String helpers of the Go standard library, as used by the generator     *)
(***************************************************************************)
BadByte == "\\xff"

\* U+FFFD, what the decoding of a byte that is no UTF-8 gives
RuneError == "\\ufffd"

\* two characters outside ASCII: U+00C9 and its lower case U+00E9
UpperEAcute == "\\u00c9"
LowerEAcute == "\\u00e9"

LowerChar(c) ==
  CASE c = "A" -> "a"
    [] c = "B" -> "b"
    [] c = "D" -> "d"
    [] c = "H" -> "h"
    [] c = "T" -> "t"
    [] c = "W" -> "w"
    [] c = UpperEAcute -> LowerEAcute
    [] c = BadByte -> RuneError
    [] OTHER -> c

\* strings.ToLower: strings.Map(unicode.ToLower, s) of a string that is not
\* all ASCII writes U+FFFD for a byte that is no UTF-8
ToLower(s) == [i \in DOMAIN s |-> LowerChar(s[i])]

ToValidUTF8(s) == SelectSeq(s, LAMBDA c : c # BadByte)

\* variant: strings.Replace with n = 1
ReplaceSpaces_First(s) ==
  [i \in DOMAIN s |->
     IF s[i] = " " /\ \A j \in 1..(i - 1) : s[j] # " " THEN "-" ELSE s[i]]

ReplaceSpaces(s) == [i \in DOMAIN s |-> IF s[i] = " " THEN "-" ELSE s[i]]

\* strings.Contains(s, sub)
Contains(s, sub) ==
  \E i \in 0..(Len(s) - Len(sub)) : SubSeq(s, i + 1, i + Len(sub)) = sub

Pad2(n) == IF n < 10 THEN <<"0", ToString(n)>> ELSE <<ToString(n)>>

\* date.Format("2006-01-02")
FormatDate(d) == <<ToString(d.year), "-">> \o Pad2(d.month) \o <<"-">> \o Pad2(d.day)

\* filepath.Join(a, b)
Join(a, b) == IF a = << >> THEN b ELSE a \o <<"/">> \o b

\* filepath.Dir of a relative path (<< >> stands for ".")
RECURSIVE Dir(_)
Dir(p) ==
  IF p = << >> THEN << >>
  ELSE IF p[Len(p)] = "/" THEN SubSeq(p, 1, Len(p) - 1)
  ELSE Dir(SubSeq(p, 1, Len(p) - 1))

(***************************************************************************)
(* Pages of the Notion database                                            *)
(***************************************************************************)
PageID(p) == <<"p", ToString(p)>>

CreatedTime(p) == [year |-> 2024, month |-> 3, day |-> 5]

\* t.UTC().Format(time.RFC3339Nano) of an instant counted in minutes
cacheTimestamp(t) == <<ToString(t), "Z">>

VARIABLES
  config,          \* the Config handed to Run, fixed for a behaviour
  pages,           \* page -> [title, edited]: the database rows
  files,           \* relative paths of the files under PostSavePath
  dirs,            \* relative paths of the directories at/under PostSavePath
  cacheFile,       \* content of the cache file: NoFile, CorruptFile or a runCache
  pc,              \* position of Run
  runs,            \* number of runs started
  dryRun,          \* the dryRun argument of the current run
  result,          \* how the run ended: "none", "ok", "error", "crash"
  pagesToProcess,  \* sequence of pages
  cache,           \* in-memory runCache.Pages
  unchangedSkipped,
  idx,             \* loop index of the serial loop / of the dispatcher
  sem,             \* number of elements in the semaphore channel
  wg,              \* WaitGroup counter
  errCh,           \* buffered error channel: sequence of failing pages
  task,            \* page -> state of its goroutine
  mu,              \* holder of the mutex, 0 when free
  blocksOf,        \* serial loop: the page whose blocks were fetched
  \* history of the current run
  fs0,             \* files, dirs and cache file when the run started
  loaded,          \* the cache as loaded
  skipped,         \* pages removed as unchanged
  fetched,         \* pages whose block tree was requested
  generated,       \* page -> relative path written by a successful generate
  failedGen,       \* pages whose generate failed
  statusCalls,     \* pages changeStatus was called for
  statusFailed,    \* some changeStatus of this run returned false
  stable,          \* last real run returned success and no page was edited since
  rerun            \* value of stable when the current run started

\* the Markdown renderer (package tomarkdown)
VARIABLES
  blocks,          \* the block list handed to GenerateTo
  extra,           \* tm.extra, the map every MdBlock shares as its Extra
  ContentBuffer,   \* tm.ContentBuffer: the template outputs, in order
  tmpc,            \* position of the renderer: "off", "new", "done", "error"
  richText,        \* the rich-text span handed to ConvertRich
  richOut,         \* what ConvertRich returned for it
  buf,             \* the local buf of ConvertRichText
  net,             \* the network as GenerateTo met it, and the preview fetches made
  page,            \* the page handed to a function of one page
  FrontMatter,     \* tm.FrontMatter
  ret,             \* what that function returned
  cachePath,       \* the path handed to saveCache and loadCache
  runCache,        \* the cache handed to saveCache
  gen              \* the Run of generator/generator.go: its locals and what it did

richVars == <<richText, richOut, buf>>

frontVars == <<page, FrontMatter, ret>>

cacheVars == <<cachePath, runCache>>

genVars == <<gen>>

renderVars == <<blocks, extra, ContentBuffer, tmpc, net, richVars, frontVars,
                cacheVars, genVars>>

vars == <<config, pages, files, dirs, cacheFile, pc, runs, dryRun, result,
          pagesToProcess, cache, unchangedSkipped, idx, sem, wg, errCh,
          task, mu, blocksOf, fs0, loaded, skipped, fetched, generated,
          failedGen, statusCalls, statusFailed, stable, rerun, renderVars>>

envVars == <<pages, files, dirs, cacheFile>>
runVars == <<pagesToProcess, cache, unchangedSkipped, idx, sem, wg,
             errCh, task, mu, blocksOf>>
histVars == <<fs0, loaded, skipped, fetched, generated, failedGen, statusCalls,
              statusFailed>>

(***************************************************************************)
(* getPageTitle, generateArticleFilename                                   *)
(***************************************************************************)
getPageTitle(p) == pages[p].title

generateArticleFilename(title, date, groupByMonth) ==
  LET escapedTitle == ReplaceSpaces(ToValidUTF8(ToLower(title)))
      escapedFilename == escapedTitle \o <<".md">>
  IN IF groupByMonth THEN Join(FormatDate(date), escapedFilename)
     ELSE escapedFilename

\* title := getPageTitle(page); if title == "" { title = page.ID }
TitleOrID(p) == IF getPageTitle(p) = << >> THEN PageID(p) ELSE getPageTitle(p)

outputRelPath(p) ==
  generateArticleFilename(TitleOrID(p), CreatedTime(p), config.groupByMonth)

\* os.Stat(filepath.Join(PostSavePath, rel)) succeeds
FileExists(rel) == rel \in files

(***************************************************************************)
(* Sync cache (cache.go)                                                   *)
(***************************************************************************)
EmptyMap == [p \in {} |-> << >>]

\* content of the cache file: absent, not parseable, or a JSON document
NoFile == [kind |-> "absent", pages |-> EmptyMap]
CorruptFile == [kind |-> "corrupt", pages |-> EmptyMap]

defaultCache == EmptyMap

\* the six characters <, which encoding/json writes for <
EscapedLess == "\\u003c"

\* encoding/json writes a Go string with every invalid byte replaced by U+FFFD
\* and with < escaped
JsonString(s) ==
  [i \in DOMAIN s |-> IF s[i] = BadByte THEN "\\ufffd"
                      ELSE IF s[i] = "<" THEN EscapedLess ELSE s[i]]

\* variant: an escape is read as the characters it is written with
JsonUnquote_Raw(s) == s

\* encoding/json reads a JSON string: an escape gives the character it names
JsonUnquote(s) == [i \in DOMAIN s |-> IF s[i] = EscapedLess THEN "<" ELSE s[i]]

\* json.MarshalIndent(cache, "", "  ")
JsonMarshal(c) ==
  [kind |-> "json",
   pages |-> [p \in DOMAIN c |->
                [last_edited |-> JsonString(c[p].LastEdited),
                 output_path |-> JsonString(c[p].OutputPath)]]]

\* json.Unmarshal(content, &cache)
JsonUnmarshal(doc) ==
  [p \in DOMAIN doc.pages |->
     [LastEdited |-> JsonUnquote(doc.pages[p].last_edited),
      OutputPath |-> JsonUnquote(doc.pages[p].output_path)]]

\* variant: a file that cannot be parsed is taken as an empty cache
loadCacheFails_Never(file) == FALSE

loadCacheFails(file) == file = CorruptFile

loadCache(file) ==
  IF file = NoFile THEN defaultCache ELSE JsonUnmarshal(file)

saveCache(c) == JsonMarshal(c)

\* variant: the entry records the title instead of the path written
cacheEntry_Title(p, out) ==
  [LastEdited |-> cacheTimestamp(pages[p].edited), OutputPath |-> TitleOrID(p)]

cacheEntry(p, out) ==
  [LastEdited |-> cacheTimestamp(pages[p].edited), OutputPath |-> out]

\* variant: the assignment replaces the map by one that holds this entry only
CachePut_Only(c, p, out) == [q \in {p} |-> cacheEntry(p, out)]

\* cache.Pages[page.ID] = cacheEntry{...}
CachePut(c, p, out) ==
  [q \in DOMAIN c \cup {p} |-> IF q = p THEN cacheEntry(p, out) ELSE c[q]]

\* prev, ok := cache.Pages[page.ID]; previousOutputRelPath = prev.OutputPath
previousOutputRelPath(c, p) ==
  IF config.incremental /\ p \in DOMAIN c THEN c[p].OutputPath ELSE << >>

(***************************************************************************)
(* cmd/root.go: the flags become the parallel settings of the Config       *)
(***************************************************************************)
\* variant: parallelism 0 leaves the parallelize flag as it is
RootCmdParallel_NoForce(parallelizeFlag, parallelismFlag) ==
  [parallelize |-> parallelizeFlag,
   parallelism |-> IF parallelismFlag = 0 THEN 1 ELSE parallelismFlag]

RootCmdParallel(parallelizeFlag, parallelismFlag) ==
  IF parallelismFlag = 0
  THEN [parallelize |-> FALSE, parallelism |-> 1]
  ELSE [parallelize |-> parallelizeFlag, parallelism |-> parallelismFlag]

DateDir == FormatDate(CreatedTime(1))

\* tm.extra after New(): an empty map
\* what a template prints for a key the map does not hold
NoValue == "<no value>"

NewExtra ==
  [ExtendedSyntaxEnabled |-> FALSE, ExtendedSyntaxTarget |-> "", SameBlockIdx |-> 0,
   Image |-> NoValue, Title |-> NoValue, Description |-> NoValue]

\* no request was made; down: requests fail, diskFull: files cannot be written
NoNet == [down |-> FALSE, diskFull |-> FALSE, fetches |-> 0]

\* no rich text is being converted
RichOff ==
  /\ richText = << >>
  /\ richOut = << >>
  /\ buf = << >>

\* no function of one page is under way
FrontOff ==
  /\ page = << >>
  /\ FrontMatter = << >>
  /\ ret = << >>

\* saveCache and loadCache are not called on their own
CacheOff ==
  /\ cachePath = << >>
  /\ runCache = << >>

\* the Run of generator/generator.go is not started
NoGen == [pc |-> "off"]

GenOff == gen = NoGen

\* no renderer is at work
RenderOff ==
  /\ blocks = << >>
  /\ extra = NewExtra
  /\ ContentBuffer = << >>
  /\ tmpc = "off"
  /\ net = NoNet
  /\ RichOff
  /\ FrontOff
  /\ CacheOff
  /\ GenOff

\* the state before Run is started
InitRun ==
  /\ \E inc \in BOOLEAN, pf \in BOOLEAN, j \in ParallelismFlags,
        gbm \in BOOLEAN, fa \in FilterArgSets, sn \in SinceValues :
       config = [incremental |-> inc,
                 parallelize |-> RootCmdParallel(pf, j).parallelize,
                 parallelism |-> RootCmdParallel(pf, j).parallelism,
                 groupByMonth |-> gbm, filterArgs |-> fa, since |-> sn]
  \* month grouping is explored in serial mode and without filters
  /\ config.groupByMonth =>
       (~config.parallelize /\ config.filterArgs = << >> /\ config.since = NoSince)
  /\ pages \in [Pages -> [title : Titles, edited : {0}]]
  /\ files = {}
  /\ dirs \in {{}, {<< >>}} \cup (IF config.groupByMonth THEN {{<< >>, DateDir}} ELSE {})
  \* an incremental sync may find a cache file that is no JSON document
  /\ cacheFile \in (IF config.incremental /\ ~config.groupByMonth
                    THEN {NoFile, CorruptFile} ELSE {NoFile})
  /\ pc = "idle"
  /\ runs = 0
  /\ dryRun = FALSE
  /\ result = "none"
  /\ pagesToProcess = << >>
  /\ cache = defaultCache
  /\ unchangedSkipped = 0
  /\ idx = 0
  /\ sem = 0
  /\ wg = 0
  /\ errCh = << >>
  /\ task = [p \in Pages |-> [pc |-> "idle", prev |-> << >>, out |-> << >>]]
  /\ mu = 0
  /\ blocksOf = 0
  /\ fs0 = [files |-> {}, dirs |-> {}, cacheFile |-> NoFile]
  /\ loaded = defaultCache
  /\ skipped = {}
  /\ fetched = {}
  /\ generated = EmptyMap
  /\ failedGen = {}
  /\ statusCalls = {}
  /\ statusFailed = FALSE
  /\ stable = FALSE
  /\ rerun = FALSE

Init == InitRun /\ RenderOff

(***************************************************************************)
(* The world between two runs                                              *)
(***************************************************************************)
\* a page is edited in Notion: last_edited_time has minute granularity, so an
\* edit within the same minute changes the title and not the time
EditPage(p) ==
  /\ pc = "idle" /\ runs >= 1 /\ runs + 1 \in RunNumbers
  /\ \E t \in Titles, e \in {pages[p].edited, pages[p].edited + 1} :
       /\ e \in EditTimes
       /\ [title |-> t, edited |-> e] # pages[p]
       /\ pages' = [pages EXCEPT ![p] = [title |-> t, edited |-> e]]
  /\ stable' = FALSE
  /\ UNCHANGED <<renderVars, config, files, dirs, cacheFile, pc, runs, dryRun, result,
                 runVars, histVars, rerun>>

\* the user deletes a generated file
DeleteFile(f) ==
  /\ pc = "idle" /\ runs >= 1 /\ runs + 1 \in RunNumbers
  /\ f \in files
  /\ files' = files \ {f}
  /\ UNCHANGED <<renderVars, config, pages, dirs, cacheFile, pc, runs, dryRun, result,
                 runVars, histVars, stable, rerun>>

(***************************************************************************)
(* Run, up to the cache check                                              *)
(***************************************************************************)
\* how Run ends: return nil, return err, or the process dies
End(r) ==
  /\ pc' = "done"
  /\ result' = r

\* the top of Run: os.MkdirAll(config.Markdown.PostSavePath, 0755), whose error
\* is ignored in a dry run
StartRun ==
  /\ pc = "idle" /\ runs + 1 \in RunNumbers
  /\ runs' = runs + 1
  /\ rerun' = stable
  /\ fs0' = [files |-> files, dirs |-> dirs, cacheFile |-> cacheFile]
  /\ \E dry \in BOOLEAN :
       /\ dryRun' = dry
       /\ \/ /\ << >> \in dirs
             /\ dirs' = dirs
             /\ pc' = "query" /\ result' = "none"
          \/ /\ << >> \notin dirs
             /\ dirs' = dirs \cup {<< >>}
             /\ pc' = "query" /\ result' = "none"
          \/ /\ << >> \notin dirs     \* MkdirAll returns an error
             /\ dirs' = dirs
             /\ IF dry THEN pc' = "query" /\ result' = "none" ELSE End("error")
  /\ UNCHANGED <<renderVars, config, pages, files, cacheFile, runVars, loaded, skipped,
                 fetched, generated, failedGen, statusCalls, statusFailed, stable>>

\* q, err := queryDatabase(client, config.Notion)
Query ==
  /\ pc = "query"
  /\ \/ /\ pagesToProcess' = [i \in 1..NumPages |-> i]
        /\ pc' = "filter" /\ result' = result
     \/ /\ pagesToProcess' = pagesToProcess
        /\ End("error")
  /\ UNCHANGED <<renderVars, config, envVars, runs, dryRun, cache, unchangedSkipped,
                 idx, sem, wg, errCh, task, mu, blocksOf, histVars,
                 stable, rerun>>

\* variant: a page edited exactly at the cutoff passes
After_OrEqual(t, since) == t >= since[1]

\* page.LastEditedTime.After(*since)
After(t, since) == t > since[1]

matchAllKeywords(p, filterArgs) ==
  \A i \in DOMAIN filterArgs :
     Contains(ToLower(getPageTitle(p)), ToLower(filterArgs[i]))

PassesFilter(p) ==
  /\ config.since # NoSince => After(pages[p].edited, config.since)
  /\ Len(config.filterArgs) > 0 =>
       /\ getPageTitle(p) # << >>
       /\ matchAllKeywords(p, config.filterArgs)

Filter ==
  /\ pc = "filter"
  /\ LET filterActive == Len(config.filterArgs) > 0 \/ config.since # NoSince
         kept == IF filterActive
                 THEN SelectSeq(pagesToProcess, PassesFilter)
                 ELSE pagesToProcess
     IN /\ pagesToProcess' = kept
        /\ IF Len(kept) = 0 THEN End("ok")
           ELSE pc' = "loadcache" /\ result' = result
  /\ UNCHANGED <<renderVars, config, envVars, runs, dryRun, cache, unchangedSkipped,
                 idx, sem, wg, errCh, task, mu, blocksOf, histVars,
                 stable, rerun>>

LoadCache ==
  /\ pc = "loadcache"
  /\ IF config.incremental
     THEN IF loadCacheFails(cacheFile)
          THEN /\ End("error")
               /\ UNCHANGED <<cache, loaded>>
          ELSE /\ cache' = loadCache(cacheFile)
               /\ loaded' = cache'
               /\ pc' = "cachecheck" /\ result' = result
     ELSE /\ cache' = defaultCache
          /\ loaded' = cache'
          /\ pc' = "cachecheck" /\ result' = result
  /\ UNCHANGED <<renderVars, config, envVars, runs, dryRun, pagesToProcess,
                 unchangedSkipped, idx, sem, wg, errCh, task, mu,
                 blocksOf, fs0, skipped, fetched, generated, failedGen,
                 statusCalls, statusFailed, stable, rerun>>

\* skipAsUnchanged := config.Incremental && found && entry.LastEdited == pageEditedAt
skipAsUnchanged(p, c) ==
  /\ config.incremental
  /\ p \in DOMAIN c
  /\ c[p].LastEdited = cacheTimestamp(pages[p].edited)

\* variant: the stat looks at the path recorded in the cache entry
StatTarget_Recorded(p, c) == c[p].OutputPath

\* the file whose existence decides the skip: os.Stat(outputAbsPath)
StatTarget(p, c) == outputRelPath(p)

\* variant: the skip does not look at the disk
IsUnchanged_NoStat(p, c) == skipAsUnchanged(p, c)

IsUnchanged(p, c) == skipAsUnchanged(p, c) /\ FileExists(StatTarget(p, c))

\* the loop over pagesToProcess that builds filteredPages
RECURSIVE filteredPages(_, _)
filteredPages(ps, c) ==
  IF ps = << >> THEN << >>
  ELSE IF IsUnchanged(Head(ps), c)
       THEN filteredPages(Tail(ps), c)
       ELSE <<Head(ps)>> \o filteredPages(Tail(ps), c)

CacheCheck ==
  /\ pc = "cachecheck"
  /\ pagesToProcess' = filteredPages(pagesToProcess, cache)
  /\ unchangedSkipped' = Len(pagesToProcess) - Len(pagesToProcess')
  /\ skipped' = {pagesToProcess[i] : i \in DOMAIN pagesToProcess}
                  \ {pagesToProcess'[i] : i \in DOMAIN pagesToProcess'}
  /\ pc' = "checked"
  /\ UNCHANGED <<renderVars, config, envVars, runs, dryRun, result, cache, idx,
                 sem, wg, errCh, task, mu, blocksOf, fs0, loaded, fetched,
                 generated, failedGen, statusCalls, statusFailed, stable, rerun>>

\* variant: the dry-run branch is never taken
DryRunReturns_Never(dry) == FALSE

\* if dryRun { ...; return nil }
DryRunReturns(dry) == dry

DryRunReport ==
  /\ pc = "checked"
  /\ DryRunReturns(dryRun)
  /\ End("ok")
  /\ UNCHANGED <<renderVars, config, envVars, runs, dryRun, runVars, histVars, stable, rerun>>

BeginRender ==
  /\ pc = "checked"
  /\ ~DryRunReturns(dryRun)
  /\ IF Len(pagesToProcess) = 0
     THEN End("ok") /\ idx' = idx
     ELSE /\ pc' = IF config.parallelize THEN "parallel" ELSE "serial"
          /\ result' = result
          /\ idx' = 1
  /\ UNCHANGED <<renderVars, config, envVars, runs, dryRun, pagesToProcess, cache,
                 unchangedSkipped, sem, wg, errCh, task, mu, blocksOf,
                 histVars, stable, rerun>>

(***************************************************************************)
(* handlePage and generate                                                 *)
(***************************************************************************)
\* the stale file handlePage removes before it generates
StaleFile(prev, out) ==
  IF config.incremental /\ prev # << >> /\ prev # out /\ FileExists(prev)
  THEN {prev} ELSE {}

\* os.Create(outputAbsPath) needs the parent directory
CanCreate(out) == Dir(out) \in dirs

\* outcomes of generate: "create" (os.Create fails), "render" (GenerateTo fails
\* after the file was created) and "ok"
GenerateOutcomes(out) == IF CanCreate(out) THEN {"render", "ok"} ELSE {"create"}

\* the files after handlePage(page, ..., prev) with generate ending in outcome o
FilesAfterHandle(prev, out, o) ==
  (files \ StaleFile(prev, out)) \cup (IF o = "create" THEN {} ELSE {out})

\* what handlePage returns besides its error: outputRelPath, or "" with an error
HandleReturn(out, o) == IF o = "ok" THEN out ELSE << >>

\* variant: the error of handlePage is dropped
HandleSucceeded_Always(o) == TRUE

\* err == nil after handlePage(...)
HandleSucceeded(o) == o = "ok"

\* history of the run: generate wrote the page's file, or failed
GeneratedAfter(p, out, o) ==
  IF o = "ok"
  THEN [q \in DOMAIN generated \cup {p} |-> IF q = p THEN out ELSE generated[q]]
  ELSE generated

FailedGenAfter(p, o) == IF o = "ok" THEN failedGen ELSE failedGen \cup {p}

(***************************************************************************)
(* Serial loop                                                             *)
(***************************************************************************)
SerialPage == pagesToProcess[idx]

SerialFetch ==
  /\ pc = "serial"
  /\ fetched' = fetched \cup {SerialPage}
  /\ \/ /\ blocksOf' = SerialPage
        /\ pc' = "serialHandle" /\ result' = result
     \/ /\ blocksOf' = blocksOf
        /\ End("error")
  /\ UNCHANGED <<renderVars, config, envVars, runs, dryRun, pagesToProcess, cache,
                 unchangedSkipped, idx, sem, wg, errCh, task, mu,
                 fs0, loaded, skipped, generated, failedGen, statusCalls, statusFailed,
                 stable, rerun>>

SerialHandle ==
  /\ pc = "serialHandle"
  /\ LET p == blocksOf
         prev == previousOutputRelPath(cache, p)
         out == outputRelPath(p)
     IN \E o \in GenerateOutcomes(out) :
          /\ files' = FilesAfterHandle(prev, out, o)
          /\ generated' = GeneratedAfter(p, out, o)
          /\ failedGen' = FailedGenAfter(p, o)
          /\ IF HandleSucceeded(o)
             THEN /\ cache' = CachePut(cache, p, HandleReturn(out, o))
                  /\ pc' = "serialStatus" /\ result' = result
             ELSE /\ cache' = cache
                  /\ End("error")
  /\ UNCHANGED <<renderVars, config, pages, dirs, cacheFile, runs, dryRun, pagesToProcess,
                 unchangedSkipped, idx, sem, wg, errCh, task, mu,
                 blocksOf, fs0, loaded, skipped, fetched, statusCalls,
                 statusFailed, stable, rerun>>

\* variant: a status update that changed nothing ends the run with an error
StatusFatal_OnFalse(statusChanged) == ~statusChanged

\* the result of changeStatus only feeds the counter of changed statuses: it
\* is never an error of the run
StatusFatal(statusChanged) == FALSE

SerialStatus ==
  /\ pc = "serialStatus"
  /\ statusCalls' = statusCalls \cup {blocksOf}
  /\ \E statusChanged \in BOOLEAN :
       /\ statusFailed' = (statusFailed \/ ~statusChanged)
       /\ IF StatusFatal(statusChanged)
          THEN /\ idx' = idx
               /\ End("error")
          ELSE /\ idx' = idx + 1
               /\ pc' = IF idx' > Len(pagesToProcess) THEN "save" ELSE "serial"
               /\ result' = result
  /\ UNCHANGED <<renderVars, config, envVars, runs, dryRun, pagesToProcess, cache,
                 unchangedSkipped, sem, wg, errCh, task, mu, blocksOf, fs0,
                 loaded, skipped, fetched, generated, failedGen, stable, rerun>>

(***************************************************************************)
(* Parallel mode: the dispatcher loop and one goroutine per page.          *)
(* A goroutine's steps are cut where it touches what the others share: the *)
(* files, the cache map, the mutex, the channels.                          *)
(***************************************************************************)
\* sem := make(chan struct{}, config.Parallelism)
SemCap == config.parallelism

\* variant: the semaphore admits one more than its capacity
SemCanSend_OneMore == sem <= SemCap

\* sem <- struct{}{} can proceed
SemCanSend == sem < SemCap

Dispatch ==
  /\ pc = "parallel"
  /\ idx <= Len(pagesToProcess)
  /\ SemCanSend
  /\ sem' = sem + 1
  /\ wg' = wg + 1
  /\ task' = [task EXCEPT ![pagesToProcess[idx]].pc = "fetch"]
  /\ idx' = idx + 1
  /\ UNCHANGED <<renderVars, config, envVars, pc, runs, dryRun, result, pagesToProcess,
                 cache, unchangedSkipped, errCh, mu, blocksOf, histVars,
                 stable, rerun>>

\* variant: errCh := make(chan error), without buffer
ErrChCap_Unbuffered == Len(<< >>)

\* errCh := make(chan error, len(pagesToProcess))
ErrChCap == Len(pagesToProcess)

\* a map assignment of another goroutine is in progress
WriteInProgress(t) == \E u \in Pages \ {t} : task[u].pc = "writing"

\* the read of cache.Pages[page.ID], made without the mutex, overlaps a map
\* write of another goroutine
RacyRead(t) == config.incremental /\ WriteInProgress(t)

\* the goroutine ends with an error: errCh <- err, and the deferred <-sem and
\* wg.Done()
TaskFails(t) ==
  /\ Len(errCh) < ErrChCap
  /\ errCh' = Append(errCh, t)
  /\ task' = [task EXCEPT ![t].pc = "done"]
  /\ sem' = sem - 1
  /\ wg' = wg - 1

\* queryBlockChildren, then the read of the page's previous output path. A read
\* that overlaps a map write is a data race: the runtime may stop the process
\* ("concurrent map read and map write"), or the lookup finds or misses the entry
TFetch(t) ==
  /\ pc = "parallel" /\ task[t].pc = "fetch"
  /\ fetched' = fetched \cup {t}
  /\ \/ /\ TaskFails(t)
        /\ UNCHANGED <<pc, result>>
     \/ /\ task' = [task EXCEPT ![t].pc = "handle",
                                ![t].prev = previousOutputRelPath(cache, t)]
        /\ UNCHANGED <<pc, result, errCh, sem, wg>>
     \/ /\ RacyRead(t)
        /\ task' = [task EXCEPT ![t].pc = "handle", ![t].prev = << >>]
        /\ UNCHANGED <<pc, result, errCh, sem, wg>>
     \/ /\ RacyRead(t)
        /\ End("crash")
        /\ UNCHANGED <<task, errCh, sem, wg>>
  /\ UNCHANGED <<renderVars, config, envVars, runs, dryRun, pagesToProcess, cache,
                 unchangedSkipped, idx, mu, blocksOf, fs0, loaded, skipped,
                 generated, failedGen, statusCalls, statusFailed, stable, rerun>>

THandle(t) ==
  /\ pc = "parallel" /\ task[t].pc = "handle"
  /\ LET prev == task[t].prev
         out == outputRelPath(t)
     IN \E o \in GenerateOutcomes(out) :
          /\ files' = FilesAfterHandle(prev, out, o)
          /\ generated' = GeneratedAfter(t, out, o)
          /\ failedGen' = FailedGenAfter(t, o)
          /\ IF HandleSucceeded(o)
             THEN /\ task' = [task EXCEPT ![t].pc = "status",
                                          ![t].out = HandleReturn(out, o)]
                  /\ UNCHANGED <<errCh, sem, wg>>
             ELSE TaskFails(t)
  /\ UNCHANGED <<renderVars, config, pages, dirs, cacheFile, pc, runs, dryRun, result,
                 pagesToProcess, cache, unchangedSkipped, idx, mu, blocksOf,
                 fs0, loaded, skipped, fetched, statusCalls, statusFailed,
                 stable, rerun>>

\* changeStatus, then mu.Lock(), and the assignment to cache.Pages[page.ID]
\* begins
TStatus(t) ==
  /\ pc = "parallel" /\ task[t].pc = "status"
  /\ mu = 0
  /\ statusCalls' = statusCalls \cup {t}
  /\ \E statusChanged \in BOOLEAN :
       /\ statusFailed' = (statusFailed \/ ~statusChanged)
       /\ IF StatusFatal(statusChanged)
          THEN /\ TaskFails(t)
               /\ mu' = mu
          ELSE /\ mu' = t
               /\ task' = [task EXCEPT ![t].pc = "writing"]
               /\ UNCHANGED <<errCh, sem, wg>>
  /\ UNCHANGED <<renderVars, config, envVars, pc, runs, dryRun, result, pagesToProcess,
                 cache, unchangedSkipped, idx, blocksOf, fs0,
                 loaded, skipped, fetched, generated, failedGen, stable, rerun>>

\* the assignment completes, mu.Unlock(), and the deferred <-sem and wg.Done()
TWrite(t) ==
  /\ pc = "parallel" /\ task[t].pc = "writing"
  /\ cache' = CachePut(cache, t, task[t].out)
  /\ mu' = 0
  /\ task' = [task EXCEPT ![t].pc = "done"]
  /\ sem' = sem - 1
  /\ wg' = wg - 1
  /\ UNCHANGED <<renderVars, config, envVars, pc, runs, dryRun, result, pagesToProcess,
                 unchangedSkipped, idx, errCh, blocksOf, histVars, stable, rerun>>

\* variant: the wait ends as soon as an error was sent
WaitReturns_OnError == wg = 0 \/ errCh # << >>

\* wg.Wait() returns when the counter is zero
WaitReturns == wg = 0

\* variant: the errors sent by the tasks are dropped
ErrChHasError_Never(ch) == FALSE

\* for err := range errCh { if err != nil { return err } } returns an error
ErrChHasError(ch) == ch # << >>

\* wg.Wait(); close(errCh); for err := range errCh { return err }
Wait ==
  /\ pc = "parallel"
  /\ idx > Len(pagesToProcess)
  /\ WaitReturns
  /\ IF ErrChHasError(errCh) THEN End("error")
     ELSE pc' = "save" /\ result' = result
  /\ UNCHANGED <<renderVars, config, envVars, runs, dryRun, runVars, histVars, stable, rerun>>

(***************************************************************************)
(* The end of Run                                                          *)
(***************************************************************************)
SaveCache ==
  /\ pc = "save"
  /\ IF config.incremental
     THEN \/ /\ cacheFile' = saveCache(cache)
             /\ End("ok")
          \/ /\ cacheFile' = cacheFile      \* os.WriteFile fails
             /\ End("error")
     ELSE /\ cacheFile' = cacheFile
          /\ End("ok")
  /\ UNCHANGED <<renderVars, config, pages, files, dirs, runs, dryRun, runVars, histVars,
                 stable, rerun>>

InitialTask == [pc |-> "idle", prev |-> << >>, out |-> << >>]

\* the process has ended; the next run starts from fresh locals
Finish ==
  /\ pc = "done"
  /\ pc' = "idle"
  /\ result' = "none"
  /\ stable' = IF dryRun THEN stable ELSE result = "ok"
  /\ dryRun' = FALSE
  /\ pagesToProcess' = << >>
  /\ cache' = defaultCache
  /\ unchangedSkipped' = 0
  /\ idx' = 0
  /\ sem' = 0
  /\ wg' = 0
  /\ errCh' = << >>
  /\ task' = [p \in Pages |-> InitialTask]
  /\ mu' = 0
  /\ blocksOf' = 0
  /\ fs0' = [files |-> {}, dirs |-> {}, cacheFile |-> NoFile]
  /\ loaded' = defaultCache
  /\ skipped' = {}
  /\ fetched' = {}
  /\ generated' = EmptyMap
  /\ failedGen' = {}
  /\ statusCalls' = {}
  /\ statusFailed' = FALSE
  /\ rerun' = FALSE
  /\ UNCHANGED <<renderVars, config, envVars, runs>>

Next ==
  \/ \E p \in Pages : EditPage(p)
  \/ \E f \in files : DeleteFile(f)
  \/ StartRun
  \/ Query
  \/ Filter
  \/ LoadCache
  \/ CacheCheck
  \/ DryRunReport
  \/ BeginRender
  \/ SerialFetch
  \/ SerialHandle
  \/ SerialStatus
  \/ Dispatch
  \/ \E t \in Pages : TFetch(t)
  \/ \E t \in Pages : THandle(t)
  \/ \E t \in Pages : TStatus(t)
  \/ \E t \in Pages : TWrite(t)
  \/ Wait
  \/ SaveCache
  \/ Finish

\* a step of the dispatcher loop, of a page goroutine, or of the wait
ParallelStep ==
  \/ Dispatch
  \/ \E t \in Pages : TFetch(t) \/ THandle(t) \/ TStatus(t) \/ TWrite(t)
  \/ Wait

Spec == Init /\ [][Next]_vars

\* the Go scheduler runs a goroutine that can make a step
SpecLive == Init /\ [][Next]_vars /\ WF_vars(ParallelStep)

TypeOK ==
  /\ pc \in {"idle", "query", "filter", "loadcache", "cachecheck", "checked",
             "serial", "serialHandle", "serialStatus", "parallel", "save", "done"}
  /\ result \in {"none", "ok", "error", "crash"}
  /\ sem \in 0..NumPages /\ wg \in 0..NumPages
  /\ mu \in 0..NumPages

(***************************************************************************)
(* The block renderer (package tomarkdown).  A block is a record of its    *)
(* type and its child blocks; the output of a block's template is recorded *)
(* as the data the template was executed with.                             *)
(***************************************************************************)
\* longest block list handed to the renderer
MaxBlocks == 3

BlockTypeParagraph == "paragraph"
BlockTypeCallout == "callout"
BlockTypeBookmark == "bookmark"
BlockTypeUnsupported == "unsupported"

\* blocks without children, as they occur below another block
LeafBlocks ==
  {[type |-> t, children |-> << >>] : t \in {BlockTypeParagraph, BlockTypeCallout}}

ChildLists == UNION {[1..n -> LeafBlocks] : n \in 0..2}

\* the URLs of the bookmarks; the preview of the second has no image
BookmarkURLs == {"u", "v"}

\* opengraph.Fetch(url), when the network is up
Fetch(url) ==
  IF url = "u"
  THEN [Title |-> "T", Description |-> "D", Image |-> <<"i">>]
  ELSE [Title |-> "S", Description |-> "C", Image |-> << >>]

Blocks ==
  {[type |-> t, children |-> c] :
     t \in {BlockTypeParagraph, BlockTypeCallout}, c \in ChildLists}
  \cup {[type |-> BlockTypeBookmark, children |-> << >>, url |-> u] :
          u \in BookmarkURLs}
  \cup {[type |-> BlockTypeUnsupported, children |-> << >>]}

BlockLists == UNION {[1..n -> Blocks] : n \in 0..MaxBlocks}

\* the block types with a file templates/<type>.gohtml
Templates == {BlockTypeParagraph, BlockTypeCallout, BlockTypeBookmark}

extendedSyntaxBlocks == {BlockTypeBookmark, BlockTypeCallout}

blockTypeInExtendedSyntaxBlocks(bType) == bType \in extendedSyntaxBlocks

ExtendedSyntaxEnabled(ex) == ex.ExtendedSyntaxEnabled

\* variant: only callouts are extended-syntax blocks
shouldSkipRender_CalloutOnly(ex, bType) ==
  ~ExtendedSyntaxEnabled(ex) /\ bType = BlockTypeCallout

shouldSkipRender(ex, bType) ==
  ~ExtendedSyntaxEnabled(ex) /\ blockTypeInExtendedSyntaxBlocks(bType)

\* block.HasChildren, as queryBlockChildren fills it
HasChildren(block) == block.children # << >>

\* the types whose Children field getChildrenBlocks reads; nil for the others
getChildrenBlocks(block) ==
  IF block.type \in {BlockTypeParagraph, BlockTypeCallout}
  THEN block.children ELSE << >>

\* what tpl.Execute(tm.ContentBuffer, block) appends: the block as the template
\* sees it
Execute(block, depth, ex) ==
  [Type |-> block.type, Depth |-> depth, SameBlockIdx |-> ex.SameBlockIdx,
   URL |-> IF block.type = BlockTypeBookmark THEN block.url ELSE NoValue,
   Image |-> ex.Image, Title |-> ex.Title, Description |-> ex.Description]

\* variant: a block type without a template is an error
TemplateMissingIsError_Yes == TRUE

\* t.ParseFS fails for a type without a template: GenBlock returns nil
TemplateMissingIsError == FALSE

\* variant: the children are rendered at the depth of their parent
ChildDepth_Same(depth) == depth

\* block.Depth+1
ChildDepth(depth) == depth + 1

\* variant: the index is not reset when the type changes
NextSameBlockIdx_NoReset(sameBlockIdx, bType, lastBlockType) == sameBlockIdx + 1

\* sameBlockIdx++; if block.Type != lastBlockType { sameBlockIdx = 0 }
NextSameBlockIdx(sameBlockIdx, bType, lastBlockType) ==
  IF bType # lastBlockType THEN 0 ELSE sameBlockIdx + 1

\* variant: a failed fetch is tried once more
\* the first image of the preview that has a URL, else what the map held
FirstImage(og, held) == IF og.Image = << >> THEN held ELSE og.Image[1]

\* (*extra)["Image"], ["Title"] and ["Description"] after the preview og
WithPreview(ex, og) ==
  [ex EXCEPT !.Image = FirstImage(og, @),
             !.Title = og.Title,
             !.Description = og.Description]

\* variant: a failed fetch is tried once more
injectBookmarkInfo_Retry(bookmark, st) ==
  IF st.netDown
  THEN [st EXCEPT !.err = TRUE, !.fetches = @ + 2]
  ELSE [st EXCEPT !.fetches = @ + 1, !.extra = WithPreview(@, Fetch(bookmark.url))]

\* injectBookmarkInfo: opengraph.Fetch(bookmark.URL) fails when the network is down
injectBookmarkInfo(bookmark, st) ==
  IF st.netDown
  THEN [st EXCEPT !.err = TRUE, !.fetches = @ + 1]
  ELSE [st EXCEPT !.fetches = @ + 1, !.extra = WithPreview(@, Fetch(bookmark.url))]

\* variant: a skipped block counts as the last block type
LastBlockTypeAfterSkip_Skipped(lastBlockType, bType) == bType

\* if tm.shouldSkipRender(block.Type) { continue }: lastBlockType is not assigned
LastBlockTypeAfterSkip(lastBlockType, bType) == lastBlockType

RECURSIVE GenContentBlocksFrom(_, _, _, _, _, _)
RECURSIVE GenBlock(_, _, _)

\* the renderer state st is [buf, extra, err, netDown, fetches]
GenBlock(block, depth, st) ==
  IF block.type \notin Templates
  THEN [st EXCEPT !.err = TemplateMissingIsError]
  ELSE LET st1 == [st EXCEPT !.buf = Append(@, Execute(block, depth, st.extra))]
       IN IF HasChildren(block)
          THEN GenContentBlocksFrom(getChildrenBlocks(block), 1,
                                    ChildDepth(depth), 0, "", st1)
          ELSE st1

\* the loop of GenContentBlocks from the i-th block on, with the values of its
\* locals sameBlockIdx and lastBlockType
GenContentBlocksFrom(bs, i, depth, sameBlockIdx, lastBlockType, st) ==
  IF i > Len(bs) THEN st
  ELSE LET block == bs[i] IN
    IF shouldSkipRender(st.extra, block.type)
    THEN GenContentBlocksFrom(bs, i + 1, depth, sameBlockIdx,
                              LastBlockTypeAfterSkip(lastBlockType, block.type), st)
    ELSE LET sbi == NextSameBlockIdx(sameBlockIdx, block.type, lastBlockType)
             st1 == [st EXCEPT !.extra.SameBlockIdx = sbi]
             st2 == IF block.type = BlockTypeBookmark
                    THEN injectBookmarkInfo(block, st1) ELSE st1
             st3 == IF st2.err THEN st2 ELSE GenBlock(block, depth, st2)
         IN IF st3.err THEN st3
            ELSE GenContentBlocksFrom(bs, i + 1, depth, sbi, block.type, st3)

GenContentBlocks(bs, depth, st) == GenContentBlocksFrom(bs, 1, depth, 0, "", st)

\* everything Run works on: the renderer leaves it alone
syncVars == <<config, envVars, pc, runs, dryRun, result, runVars, histVars,
              stable, rerun>>

\* no sync is under way
RunOff ==
  /\ InitRun
  /\ ~config.incremental /\ ~config.parallelize /\ ~config.groupByMonth
  /\ config.parallelism = 1
  /\ config.filterArgs = << >> /\ config.since = NoSince
  /\ \A p \in Pages : pages[p].title = << >>
  /\ dirs = {}

\* tm := tomarkdown.New(), about to render a block list
InitRender ==
  /\ RunOff
  /\ blocks \in BlockLists
  /\ extra = NewExtra
  /\ ContentBuffer = << >>
  /\ tmpc = "new"
  /\ net = NoNet
  /\ RichOff
  /\ FrontOff
  /\ CacheOff
  /\ GenOff

EnableExtendedSyntax(target) ==
  /\ tmpc = "new"
  /\ ~ExtendedSyntaxEnabled(extra)
  /\ extra' = [extra EXCEPT !.ExtendedSyntaxEnabled = TRUE,
                            !.ExtendedSyntaxTarget = target]
  /\ UNCHANGED <<syncVars, blocks, ContentBuffer, tmpc, net, richVars, frontVars,
                 cacheVars, genVars>>

\* the block content of GenerateTo: tm.GenContentBlocks(blocks, 0)
GenerateTo ==
  /\ tmpc = "new"
  /\ \E netDown \in BOOLEAN :
       LET st == GenContentBlocks(blocks, 0,
                   [buf |-> ContentBuffer, extra |-> extra, err |-> FALSE,
                    netDown |-> netDown, fetches |-> 0])
       IN /\ ContentBuffer' = st.buf
          /\ extra' = st.extra
          /\ net' = [down |-> netDown, diskFull |-> FALSE, fetches |-> st.fetches]
          /\ tmpc' = IF st.err THEN "error" ELSE "done"
  /\ UNCHANGED <<syncVars, blocks, richVars, frontVars, cacheVars, genVars>>

NextRender ==
  \/ \E target \in {"hugo"} : EnableExtendedSyntax(target)
  \/ GenerateTo

SpecRender == InitRender /\ [][NextRender]_vars

(***************************************************************************)
(* The rich-text renderer: ConvertRichText, ConvertRich, emphFormat.       *)
(* A string is the sequence of its characters; in a format string the verb *)
(* %s is one element.                                                      *)
(***************************************************************************)
\* longest rich-text list handed to ConvertRichText
MaxSpans == 2

\* the back-tick character, U+0060
Backtick == "\\x60"

\* a.Annotations is a pointer: << >> is nil
NoAnnotations == << >>

AnnotationValues ==
  {NoAnnotations} \cup
  {<<a>> : a \in [Bold : BOOLEAN, Italic : BOOLEAN, Strikethrough : BOOLEAN,
                  Underline : BOOLEAN, Code : BOOLEAN]}

RichTextTypeText == "text"
RichTextTypeEquation == "equation"
RichTextTypeMention == "mention"

\* t.Text.Link is a pointer: << >> is nil, <<url>> a link
RichTexts ==
  {[Type |-> RichTextTypeText, Content |-> <<"x">>, Link |-> l, Annotations |-> a] :
     l \in {<< >>, <<<<"u">>>>}, a \in AnnotationValues}
  \cup {[Type |-> ty, Content |-> << >>, Link |-> << >>,
         Annotations |-> NoAnnotations] :
          ty \in {RichTextTypeEquation, RichTextTypeMention}}

RichTextLists == UNION {[1..n -> RichTexts] : n \in 0..MaxSpans}

\* fmt.Sprintf(format, args...) for a format whose only verbs are %s
RECURSIVE Sprintf(_, _)
Sprintf(format, args) ==
  IF format = << >> THEN << >>
  ELSE IF Head(format) = "%s"
       THEN Head(args) \o Sprintf(Tail(format), Tail(args))
       ELSE <<Head(format)>> \o Sprintf(Tail(format), args)

\* variant: code is one more wrapper around the emphasis
emphFormat_CodeAsWrapper(a) ==
  IF a = NoAnnotations THEN <<"%s">>
  ELSE LET s == IF a[1].Bold /\ a[1].Italic THEN <<"*", "*", "*", "%s", "*", "*", "*">>
                ELSE IF a[1].Bold THEN <<"*", "*", "%s", "*", "*">>
                ELSE IF a[1].Italic THEN <<"*", "%s", "*">>
                ELSE <<"%s">>
       IN IF a[1].Code THEN <<Backtick>> \o s \o <<Backtick>>
          ELSE IF a[1].Underline THEN <<"_", "_">> \o s \o <<"_", "_">>
          ELSE IF a[1].Strikethrough THEN <<"~", "~">> \o s \o <<"~", "~">>
          ELSE s

\* variant: the case a.Bold stands before the case a.Bold && a.Italic
emphFormat_BoldFirst(a) ==
  IF a = NoAnnotations THEN <<"%s">>
  ELSE IF a[1].Code THEN <<Backtick, "%s", Backtick>>
  ELSE LET s == IF a[1].Bold THEN <<"*", "*", "%s", "*", "*">>
                ELSE IF a[1].Bold /\ a[1].Italic
                     THEN <<"*", "*", "*", "%s", "*", "*", "*">>
                ELSE IF a[1].Italic THEN <<"*", "%s", "*">>
                ELSE <<"%s">>
       IN IF a[1].Underline THEN <<"_", "_">> \o s \o <<"_", "_">>
          ELSE IF a[1].Strikethrough THEN <<"~", "~">> \o s \o <<"~", "~">>
          ELSE s

\* variant: the strikethrough wrap does not depend on underline
emphFormat_BothWraps(a) ==
  IF a = NoAnnotations THEN <<"%s">>
  ELSE IF a[1].Code THEN <<Backtick, "%s", Backtick>>
  ELSE LET s == IF a[1].Bold /\ a[1].Italic
                THEN <<"*", "*", "*", "%s", "*", "*", "*">>
                ELSE IF a[1].Bold THEN <<"*", "*", "%s", "*", "*">>
                ELSE IF a[1].Italic THEN <<"*", "%s", "*">>
                ELSE <<"%s">>
           u == IF a[1].Underline THEN <<"_", "_">> \o s \o <<"_", "_">> ELSE s
       IN IF a[1].Strikethrough THEN <<"~", "~">> \o u \o <<"~", "~">> ELSE u

emphFormat(a) ==
  IF a = NoAnnotations THEN <<"%s">>
  ELSE IF a[1].Code THEN <<Backtick, "%s", Backtick>>
  ELSE LET s == IF a[1].Bold /\ a[1].Italic
                THEN <<"*", "*", "*", "%s", "*", "*", "*">>
                ELSE IF a[1].Bold THEN <<"*", "*", "%s", "*", "*">>
                ELSE IF a[1].Italic THEN <<"*", "%s", "*">>
                ELSE <<"%s">>
       IN IF a[1].Underline THEN <<"_", "_">> \o s \o <<"_", "_">>
          ELSE IF a[1].Strikethrough THEN <<"~", "~">> \o s \o <<"~", "~">>
          ELSE s

ConvertRich(t) ==
  IF t.Type = RichTextTypeText
  THEN IF t.Link # << >>
       THEN Sprintf(emphFormat(t.Annotations),
                    <<Sprintf(<<"[", "%s", "]", "(", "%s", ")">>,
                              <<t.Content, t.Link[1]>>)>>)
       ELSE Sprintf(emphFormat(t.Annotations), <<t.Content>>)
  ELSE << >>

\* ConvertRichText is about to be called with a list of spans
InitRich ==
  /\ RunOff
  /\ blocks = << >>
  /\ extra = NewExtra
  /\ ContentBuffer = << >>
  /\ tmpc = "rich"
  /\ net = NoNet
  /\ richText \in RichTextLists
  /\ richOut = << >>
  /\ buf = << >>
  /\ FrontOff
  /\ CacheOff
  /\ GenOff

\* variant: the new text goes in front of what the buffer holds
WriteString_InFront(b, s) == s \o b

\* buf.WriteString(s)
WriteString(b, s) == b \o s

\* one round of the loop of ConvertRichText: buf.WriteString(ConvertRich(word));
\* richOut keeps what was written for each word
ConvertRichWord ==
  /\ tmpc = "rich"
  /\ Len(richOut) < Len(richText)
  /\ richOut' = Append(richOut, ConvertRich(richText[Len(richOut) + 1]))
  /\ buf' = WriteString(buf, ConvertRich(richText[Len(richOut) + 1]))
  /\ UNCHANGED <<syncVars, blocks, extra, ContentBuffer, tmpc, net, richText,
                 frontVars, cacheVars, genVars>>

\* return buf.String()
ConvertRichTextReturn ==
  /\ tmpc = "rich"
  /\ Len(richOut) = Len(richText)
  /\ tmpc' = "richDone"
  /\ UNCHANGED <<syncVars, blocks, extra, ContentBuffer, net, richVars, frontVars,
                 cacheVars, genVars>>

NextRich == ConvertRichWord \/ ConvertRichTextReturn

SpecRich == InitRich /\ [][NextRich]_vars

(***************************************************************************)
(* The front matter: WithFrontMatter, injectFrontMatterCover,              *)
(* injectFrontMatter, downloadImage, saveTo, GenFrontMatter.  A pointer is *)
(* a sequence of no or one value; a Go map is a function.                  *)
(***************************************************************************)
\* most properties of a page
MaxProps == 2

PropertyNames == <<<<"T">>, <<"t">>, <<"D">>, <<"d">>>>

\* time.Time: the zero time and a day
ZeroTime == [year |-> 1, month |-> 1, day |-> 1]
SomeTime == [year |-> 2024, month |-> 3, day |-> 5]

\* what property.Value() returns, by its Go type; a date has a start, or, for
\* the else branch of injectFrontMatter, an end only
PropertyValues ==
  {[type |-> "*SelectOptions", val |-> v] : v \in {<< >>, <<[Name |-> <<"n">>]>>}}
  \cup {[type |-> "[]SelectOptions", val |-> v] :
          v \in {<< >>, <<[Name |-> <<"n">>]>>}}
  \cup {[type |-> "[]RichText", val |-> v] :
          v \in {<< >>, <<[Type |-> RichTextTypeText, Content |-> <<"x">>,
                          Link |-> << >>, Annotations |-> NoAnnotations]>>}}
  \cup {[type |-> "*time.Time", val |-> v] : v \in {<< >>, <<SomeTime>>}}
  \cup {[type |-> "*Date", val |-> v] :
          v \in {<< >>, <<[Start |-> SomeTime, End |-> ZeroTime]>>,
                 <<[Start |-> ZeroTime, End |-> SomeTime]>>}}
  \cup {[type |-> "*User", val |-> v] : v \in {<< >>, <<[Name |-> <<"n">>]>>}}
  \cup {[type |-> "*string", val |-> v] : v \in {<< >>, <<<< >>>>, <<<<"s">>>>}}
  \cup {[type |-> "*float64", val |-> v] : v \in {<< >>, <<0>>}}
  \cup {[type |-> "*bool", val |-> <<TRUE>>], [type |-> "[]User", val |-> << >>]}

FileTypeExternal == "external"
FileTypeFile == "file"

\* page.Cover is a pointer
Covers ==
  {<< >>} \cup {<<[Type |-> ty, URL |-> [Host |-> <<"h">>, Path |-> <<"/", "a">>]]>> :
                  ty \in {FileTypeExternal, FileTypeFile}}

FrontPages ==
  {[Cover |-> c, Properties |-> props] :
     c \in Covers,
     props \in UNION {[names -> PropertyValues] :
                        names \in SUBSET {PropertyNames[i] : i \in 1..MaxProps}}}

\* prop.Format("2006-01-02T15:04:05+07:00") of a day: +07:00 is no verb of a
\* Go layout and is written as it stands
FormatFrontMatterTime(t) ==
  FormatDate(t) \o <<"T", "0", "0", ":", "0", "0", ":", "0", "0",
                     "+", "0", "7", ":", "0", "0">>

IsZero(t) == t = ZeroTime

\* ConvertRichText as a function of the span list
ConvertRichText(words) ==
  LET RECURSIVE From(_, _)
      From(i, b) == IF i > Len(words) THEN b
                    ELSE From(i + 1, WriteString(b, ConvertRich(words[i])))
  IN From(1, << >>)

\* variant: a multi-select without options gives no value
FrontMatterValue_NoEmptyList(prop) ==
  LET v == prop.val IN
  CASE prop.type = "*SelectOptions" -> IF v # << >> THEN <<v[1].Name>> ELSE << >>
    [] prop.type = "[]SelectOptions" ->
         IF v = << >> THEN << >> ELSE <<[i \in DOMAIN v |-> v[i].Name]>>
    [] prop.type = "[]RichText" -> <<ConvertRichText(v)>>
    [] prop.type = "*time.Time" ->
         IF v # << >> THEN <<FormatFrontMatterTime(v[1])>> ELSE << >>
    [] prop.type = "*Date" ->
         IF v = << >> THEN << >>
         ELSE IF ~IsZero(v[1].Start) THEN <<FormatFrontMatterTime(v[1].Start)>>
         ELSE IF ~IsZero(v[1].End) THEN <<FormatFrontMatterTime(v[1].End)>>
         ELSE << >>
    [] prop.type = "*User" -> IF v # << >> THEN <<v[1].Name>> ELSE << >>
    [] prop.type = "*string" -> IF v # << >> THEN <<v[1]>> ELSE << >>
    [] prop.type = "*float64" -> IF v # << >> THEN <<v[1]>> ELSE << >>
    [] OTHER -> << >>

\* the type switch of injectFrontMatter: fmv, << >> when it stays nil
FrontMatterValue(prop) ==
  LET v == prop.val IN
  CASE prop.type = "*SelectOptions" -> IF v # << >> THEN <<v[1].Name>> ELSE << >>
    [] prop.type = "[]SelectOptions" -> <<[i \in DOMAIN v |-> v[i].Name]>>
    [] prop.type = "[]RichText" -> <<ConvertRichText(v)>>
    [] prop.type = "*time.Time" ->
         IF v # << >> THEN <<FormatFrontMatterTime(v[1])>> ELSE << >>
    [] prop.type = "*Date" ->
         IF v = << >> THEN << >>
         ELSE IF ~IsZero(v[1].Start) THEN <<FormatFrontMatterTime(v[1].Start)>>
         ELSE IF ~IsZero(v[1].End) THEN <<FormatFrontMatterTime(v[1].End)>>
         ELSE << >>
    [] prop.type = "*User" -> IF v # << >> THEN <<v[1].Name>> ELSE << >>
    [] prop.type = "*string" -> IF v # << >> THEN <<v[1]>> ELSE << >>
    [] prop.type = "*float64" -> IF v # << >> THEN <<v[1]>> ELSE << >>
    [] OTHER -> << >>

\* m[key] = value
MapPut(m, key, value) ==
  [k \in DOMAIN m \cup {key} |-> IF k = key THEN value ELSE m[k]]

\* if fmv != nil { tm.FrontMatter[key] = fmv }
injectFrontMatter(fm, key, property) ==
  LET fmv == FrontMatterValue(property)
  IN IF fmv # << >> THEN MapPut(fm, key, fmv[1]) ELSE fm

\* strings.Split(s, "/")
RECURSIVE Split(_)
Split(s) ==
  IF \A i \in DOMAIN s : s[i] # "/" THEN <<s>>
  ELSE LET k == CHOOSE i \in DOMAIN s :
                  s[i] = "/" /\ \A j \in 1..(i - 1) : s[j] # "/"
       IN <<SubSeq(s, 1, k - 1)>> \o Split(SubSeq(s, k + 1, Len(s)))

\* strings.Join(elems, "_")
RECURSIVE JoinUnderscore(_)
JoinUnderscore(elems) ==
  IF Len(elems) = 0 THEN << >>
  ELSE IF Len(elems) = 1 THEN elems[1]
  ELSE elems[1] \o <<"_">> \o JoinUnderscore(Tail(elems))

\* strings.HasPrefix(s, prefix)
HasPrefix(s, prefix) ==
  Len(s) >= Len(prefix) /\ SubSeq(s, 1, Len(prefix)) = prefix

\* filepath.Ext(path): from the last dot of the last element on
Ext(path) ==
  LET last == Split(path)[Len(Split(path))]
  IN IF \A i \in DOMAIN last : last[i] # "." THEN << >>
     ELSE LET k == CHOOSE i \in DOMAIN last :
                     last[i] = "." /\ \A j \in (i + 1)..Len(last) : last[j] # "."
          IN SubSeq(last, k, Len(last))

\* u.Hostname(): the host without its port
Hostname(host) ==
  IF \A i \in DOMAIN host : host[i] # ":" THEN host
  ELSE SubSeq(host, 1, (CHOOSE i \in DOMAIN host :
                          host[i] = ":" /\ \A j \in 1..(i - 1) : host[j] # ":") - 1)

\* the name saveTo gives the file of the URL u; "Untitled" is one element
saveToFilename(u) ==
  LET splitPaths == Split(u.Path)
      last == splitPaths[Len(splitPaths)]
      imageFilename == IF HasPrefix(last, <<"Untitled", ".">>)
                       THEN splitPaths[Len(splitPaths) - 1] \o Ext(u.Path)
                       ELSE last
      urlPath == JoinUnderscore(splitPaths)
  IN Hostname(u.Host) \o <<"_">> \o urlPath \o <<"_">> \o imageFilename

\* saveTo: the visit path of the file written for rawURL
saveTo(rawURL) == <<"v", "/">> \o saveToFilename(rawURL)

\* downloadImage: http.Get fails when the network is down, saveTo when the
\* file cannot be written; an image of another type is left alone
downloadImage(image, w) ==
  IF image.Type \in {FileTypeExternal, FileTypeFile}
  THEN IF w.down \/ w.diskFull
       THEN [err |-> TRUE, image |-> image, fetches |-> 1]
       ELSE [err |-> FALSE, image |-> [image EXCEPT !.URL = saveTo(@)],
             fetches |-> 1]
  ELSE [err |-> FALSE, image |-> image, fetches |-> 0]

CoverKey == <<"c", "o", "v", "e", "r">>

\* injectFrontMatterCover: the map after it
injectFrontMatterCover(fm, cover, w) ==
  IF cover = << >> THEN fm
  ELSE LET d == downloadImage(cover[1], w)
       IN IF d.err THEN fm ELSE MapPut(fm, CoverKey, d.image.URL)

\* the loop of WithFrontMatter over the properties named in todo
RECURSIVE injectAll(_, _, _)
injectAll(fm, props, todo) ==
  IF todo = {} THEN fm
  ELSE LET key == CHOOSE k \in todo : TRUE
       IN injectAll(injectFrontMatter(fm, key, props[key]), props, todo \ {key})

\* tm := tomarkdown.New(), about to be given a page
InitFront ==
  /\ RunOff
  /\ blocks = << >>
  /\ extra = NewExtra
  /\ ContentBuffer = << >>
  /\ tmpc = "front"
  /\ net = NoNet
  /\ RichOff
  /\ page \in FrontPages
  /\ FrontMatter = << >>
  /\ ret = << >>
  /\ CacheOff
  /\ GenOff

\* tm.WithFrontMatter(page); it returns nothing
WithFrontMatter ==
  /\ tmpc = "front"
  /\ \E down \in BOOLEAN, diskFull \in BOOLEAN :
       LET w == [down |-> down, diskFull |-> diskFull]
           fm == injectFrontMatterCover(FrontMatter, page.Cover, w)
       IN /\ FrontMatter' = injectAll(fm, page.Properties, DOMAIN page.Properties)
          /\ net' = [down |-> down, diskFull |-> diskFull,
                     fetches |-> IF page.Cover = << >> THEN 0 ELSE 1]
  /\ tmpc' = "injected"
  /\ UNCHANGED <<syncVars, blocks, extra, ContentBuffer, richVars, page, ret,
                 cacheVars, genVars>>

\* nfm[strings.ToLower(key)] = value
FrontMatterKey(key) == ToLower(key)

\* GenFrontMatter: nothing is written for an empty map; else the map with its
\* keys lower-cased between two --- lines.  Of two keys that differ in case
\* only, the one the map iteration visits last gives the value.
GenFrontMatter ==
  /\ tmpc = "injected"
  /\ IF DOMAIN FrontMatter = {}
     THEN ret' = << >>
     ELSE LET keys == {FrontMatterKey(key) : key \in DOMAIN FrontMatter}
          IN \E last \in [keys -> DOMAIN FrontMatter] :
               /\ \A k \in keys : FrontMatterKey(last[k]) = k
               /\ ret' = <<"---", [k \in keys |-> FrontMatter[last[k]]], "---">>
  /\ tmpc' = "frontDone"
  /\ UNCHANGED <<syncVars, blocks, extra, ContentBuffer, net, richVars, page,
                 FrontMatter, cacheVars, genVars>>

NextFront == WithFrontMatter \/ GenFrontMatter

SpecFront == InitFront /\ [][NextFront]_vars

(***************************************************************************)
(* The files saveTo writes for the image blocks of one page                *)
(***************************************************************************)
\* longest URL path drawn from PathChars
MaxPathLen == 4

PathChars == {"/", "_", "a"}

\* absolute paths, and paths of Notion uploads
URLPaths ==
  {<< >>} \cup
  {<<"/">> \o p : p \in UNION {[1..n -> PathChars] : n \in 0..(MaxPathLen - 1)}}
  \cup {<<"/", "a", "_", "b", "/", "c">>, <<"/", "a", "/", "b", "/", "c">>,
        <<"/", "a", "/", "Untitled", ".", "p">>, <<"/", "b", "/", "Untitled", ".", "p">>}

URLHosts == {<<"h">>, <<"g">>, <<"h", ":", "8">>}

ImageBlocks ==
  {[type |-> "image", children |-> << >>, URL |-> [Host |-> h, Path |-> p]] :
     h \in URLHosts, p \in URLPaths}

\* a page of two image blocks, whose files go to one image save directory
InitAsset ==
  /\ RunOff
  /\ blocks \in [1..2 -> ImageBlocks]
  /\ extra = NewExtra
  /\ ContentBuffer = << >>
  /\ tmpc = "asset"
  /\ net = NoNet
  /\ RichOff
  /\ FrontOff
  /\ CacheOff
  /\ GenOff

\* downloadImage of the next image block: ret holds the names of the files
\* created in tm.ImgSavePath, in the order of the blocks
SaveImage ==
  /\ tmpc = "asset"
  /\ Len(ret) < Len(blocks)
  /\ ret' = Append(ret, saveToFilename(blocks[Len(ret) + 1].URL))
  /\ UNCHANGED <<syncVars, blocks, extra, ContentBuffer, tmpc, net, richVars,
                 page, FrontMatter, cacheVars, genVars>>

NextAsset == SaveImage

SpecAsset == InitAsset /\ [][NextAsset]_vars

(***************************************************************************)
(* generateArticleFilename as a function of a title, a creation time and   *)
(* the month grouping                                                      *)
(***************************************************************************)
\* longest title drawn from TitleChars
MaxTitleLen == 3

TitleChars == {"H", "h", " ", "!", UpperEAcute, BadByte}

HelloWorld == <<"H", "e", "l", "l", "o", " ", "W", "o", "r", "l", "d", "!">>

NamedPages ==
  {[Title |-> t, CreatedTime |-> d] :
     t \in UNION {[1..n -> TitleChars] : n \in 0..MaxTitleLen} \cup {HelloWorld},
     d \in {[year |-> 2024, month |-> 3, day |-> 5],
            [year |-> 2023, month |-> 11, day |-> 23]}}

InitName ==
  /\ RunOff
  /\ blocks = << >>
  /\ extra = NewExtra
  /\ ContentBuffer = << >>
  /\ tmpc = "name"
  /\ net = NoNet
  /\ RichOff
  /\ page \in NamedPages
  /\ FrontMatter = << >>
  /\ ret = << >>
  /\ CacheOff
  /\ GenOff

\* generateArticleFilename(title, page.CreatedTime, config) with either value
\* of config.Markdown.GroupByMonth
GenerateArticleFilename ==
  /\ tmpc = "name"
  /\ \E groupByMonth \in BOOLEAN :
       ret' = [GroupByMonth |-> groupByMonth,
               name |-> generateArticleFilename(page.Title, page.CreatedTime,
                                                groupByMonth)]
  /\ tmpc' = "nameDone"
  /\ UNCHANGED <<syncVars, blocks, extra, ContentBuffer, net, richVars, page,
                 FrontMatter, cacheVars, genVars>>

NextName == GenerateArticleFilename

SpecName == InitName /\ [][NextName]_vars

(***************************************************************************)
(* saveCache and loadCache as functions of a path, a cache and the file    *)
(* at the path                                                             *)
(***************************************************************************)
\* output paths with a character that JSON escapes and characters outside ASCII
CachePaths ==
  {<<"a", ".md">>, <<"<", ".md">>, <<LowerEAcute, ".md">>, <<RuneError, ".md">>}

Caches ==
  UNION {[ps -> [LastEdited : {cacheTimestamp(e) : e \in EditTimes},
                 OutputPath : CachePaths]] : ps \in SUBSET Pages}

\* loadCache(path) when file is what is at the path
loadCacheAt(path, file) ==
  IF path = << >> THEN [err |-> FALSE, cache |-> defaultCache]
  ELSE IF loadCacheFails(file) THEN [err |-> TRUE, cache |-> EmptyMap]
  ELSE [err |-> FALSE, cache |-> loadCache(file)]

\* saveCache(path, c): its error and the file at the path after it
saveCacheAt(path, c, file, writeFails) ==
  IF path = << >> THEN [err |-> FALSE, file |-> file]
  ELSE IF writeFails THEN [err |-> TRUE, file |-> file]
  ELSE [err |-> FALSE, file |-> saveCache(c)]

InitCache ==
  /\ RunOff
  /\ blocks = << >>
  /\ extra = NewExtra
  /\ ContentBuffer = << >>
  /\ tmpc = "cache"
  /\ net = NoNet
  /\ RichOff
  /\ FrontOff
  /\ cachePath \in {<< >>, <<"c">>}
  /\ runCache \in Caches
  /\ GenOff

\* what the file-level calls leave alone
notCacheFile == <<config, pages, files, dirs, pc, runs, dryRun, result, runVars,
                  histVars, stable, rerun, blocks, extra, ContentBuffer, net,
                  richVars, page, FrontMatter, cacheVars, genVars>>

\* something else wrote the file at the path: it is no JSON document
CorruptCacheFile ==
  /\ tmpc = "cache" /\ cacheFile = NoFile
  /\ cacheFile' = CorruptFile
  /\ UNCHANGED <<notCacheFile, tmpc, ret>>

\* saveCache(cachePath, runCache)
SaveCacheCall ==
  /\ tmpc = "cache"
  /\ \E writeFails \in BOOLEAN :
       LET r == saveCacheAt(cachePath, runCache, cacheFile, writeFails)
       IN /\ cacheFile' = r.file
          /\ tmpc' = IF r.err THEN "saveFailed" ELSE "saved"
  /\ UNCHANGED <<notCacheFile, ret>>

\* loadCache(cachePath)
LoadCacheCall ==
  /\ tmpc \in {"cache", "saved", "saveFailed"}
  /\ ret' = loadCacheAt(cachePath, cacheFile)
  /\ tmpc' = "loaded"
  /\ UNCHANGED <<notCacheFile, cacheFile>>

NextCache == CorruptCacheFile \/ SaveCacheCall \/ LoadCacheCall

SpecCache == InitCache /\ [][NextCache]_vars

(***************************************************************************)
(* Properties                                                              *)
(***************************************************************************)
\* the entry of page p in a cache map, as a sequence of zero or one entries
Entry(c, p) == IF p \in DOMAIN c THEN <<c[p]>> ELSE << >>

KeptPages == {pagesToProcess[i] : i \in DOMAIN pagesToProcess}

IsRerun == rerun /\ config.incremental

InFlight == {t \in Pages : task[t].pc \in {"fetch", "handle", "status", "writing"}}

\* C3: in parallel mode with parallelism P >= 1, at most P page pipelines are
\* in flight at any moment.
C3_InFlightAtMostParallelism ==
  (config.parallelize /\ config.parallelism >= 1) =>
     Cardinality(InFlight) <= config.parallelism

\* C3 witness: the pool is full while pages are still waiting to be dispatched
C3_Witness ==
  /\ pc = "parallel"
  /\ idx <= Len(pagesToProcess)
  /\ Cardinality(InFlight) = config.parallelism

\* C4: a page task's read of the cache map never happens while another task's
\* write of the map is in progress.
C4_ReadNeverOverlapsWrite ==
  [][\A t \in Pages :
       (config.incremental /\ task[t].pc = "fetch" /\ task'[t].pc = "handle")
          => ~WriteInProgress(t)]_vars

\* pages whose task sent an error
Failed == {errCh[i] : i \in DOMAIN errCh}

\* C5: when Run returns the error of a failed page task in parallel mode, every
\* page had been dispatched, every task has ended, and every task that did not
\* fail itself ran to its end (file generated, status update called, cache
\* entry written).
C5_ErrorAfterAllTasksFinished ==
  (pc = "done" /\ result = "error" /\ config.parallelize /\ errCh # << >>) =>
     /\ idx > Len(pagesToProcess)
     /\ \A p \in KeptPages :
          /\ task[p].pc = "done"
          /\ p \notin Failed =>
               /\ p \in DOMAIN generated
               /\ p \in statusCalls
               /\ p \in DOMAIN cache /\ cache[p].OutputPath = generated[p]

\* C5 witness: with one slot, the first page failed and the second page was
\* dispatched afterwards and ran to its end before Run returned the error
C5_Witness ==
  /\ pc = "done" /\ result = "error" /\ config.parallelize
  /\ config.parallelism = 1
  /\ Len(pagesToProcess) >= 2
  /\ errCh = <<pagesToProcess[1]>>
  /\ pagesToProcess[2] \in DOMAIN generated

\* C6: a step in which the generation of a page fails removes no file: the stale
\* file of the page is still on disk.
C6_FailedGenerationKeepsStaleFile ==
  [][(failedGen' \ failedGen # {}) => files \subseteq files']_vars

C9_DryRunHasNoEffects ==
  dryRun =>
    /\ fetched = {}
    /\ DOMAIN generated = {}
    /\ failedGen = {}
    /\ statusCalls = {}
    /\ files = fs0.files
    /\ cacheFile = fs0.cacheFile
    /\ pc = "done" =>
         \/ result = "ok"
         \/ /\ result = "error"
            /\ \/ pagesToProcess = << >>
               \/ config.incremental /\ loadCacheFails(cacheFile)

\* C9 witness: a dry run ended after the cache check removed one page and kept
\* another
C9_Witness ==
  /\ dryRun /\ pc = "done" /\ result = "ok"
  /\ skipped # {}
  /\ pagesToProcess # << >>

\* C10: in a dry run the directories and files are those found when the run
\* started.
C10_DryRunCreatesNothing ==
  dryRun => (dirs = fs0.dirs /\ files = fs0.files)

\* pages whose block fetch or generation failed in the current run
FailedPages ==
  failedGen \cup Failed \cup
    (IF pc = "done" /\ result = "error" THEN fetched \ DOMAIN generated ELSE {})

\* C11: the cache file gets no new or updated entry for a page whose fetch or
\* generation failed, in serial and in parallel mode.
C11_NoCacheFileEntryForFailedPage ==
  \A p \in FailedPages :
     Entry(cacheFile.pages, p) = Entry(fs0.cacheFile.pages, p)

\* C11 witness: a parallel incremental run ended with an error; the failing
\* page had an entry with an older timestamp, and another page was rendered
C11_Witness ==
  /\ pc = "done" /\ result = "error" /\ config.incremental /\ config.parallelize
  /\ DOMAIN generated # {}
  /\ \E p \in FailedPages :
       /\ p \in DOMAIN loaded
       /\ loaded[p].LastEdited # cacheTimestamp(pages[p].edited)

\* C12: Run never returns success when the fetch or generation of a page
\* failed; in serial mode it returns the error at the first failing page, and
\* no later page of the list is fetched, rendered or status-updated.
C12_PageFailureFailsRun ==
  /\ (pc = "done" /\ result = "ok") =>
        (failedGen = {} /\ Failed = {} /\ fetched \subseteq DOMAIN generated)
  /\ (pc = "done" /\ ~config.parallelize /\ FailedPages # {}) =>
        /\ result = "error"
        /\ FailedPages = {pagesToProcess[idx]}
        /\ pagesToProcess[idx] \notin statusCalls
        /\ \A j \in DOMAIN pagesToProcess :
             j > idx => pagesToProcess[j] \notin
                          (fetched \cup DOMAIN generated \cup statusCalls)

\* C12 witness: a serial run returned the error of a page that is not the last
\* of the list
C12_Witness ==
  /\ pc = "done" /\ result = "error" /\ ~config.parallelize
  /\ FailedPages # {}
  /\ idx < Len(pagesToProcess)

\* C13: changeStatus is called for a page only after its generation succeeded,
\* and a status update that returned false neither makes Run return an error
\* nor keeps another page from being processed: a run without a failed page
\* that has ended processed every page, and returns an error only if the cache
\* file could not be written.
C13_StatusAfterGenerateAndNeverFatal ==
  /\ statusCalls \subseteq DOMAIN generated
  /\ (pc = "done" /\ statusFailed /\ result \in {"ok", "error"}
        /\ FailedPages = {}) =>
        /\ KeptPages \subseteq (DOMAIN generated \cap statusCalls)
        /\ result = "error" => config.incremental

\* C13 witness: a run in which a status update returned false rendered and
\* status-updated two pages and returned success
C13_Witness ==
  /\ pc = "done" /\ result = "ok" /\ statusFailed
  /\ Cardinality(statusCalls) >= 2

\* the filter of C14, written from the claim
C14_Keeps(p) ==
  /\ (config.since = << >> \/ pages[p].edited > config.since[1])
  /\ \/ config.filterArgs = << >>
     \/ /\ pages[p].title # << >>
        /\ \A i \in DOMAIN config.filterArgs :
             Contains(ToLower(pages[p].title), ToLower(config.filterArgs[i]))

FreshState(enabled) ==
  [buf |-> << >>,
   extra |-> [NewExtra EXCEPT !.ExtendedSyntaxEnabled = enabled,
                              !.ExtendedSyntaxTarget = extra.ExtendedSyntaxTarget],
   err |-> FALSE, netDown |-> FALSE, fetches |-> 0]

\* a block list with the blocks of the given types removed, at every level
RECURSIVE Without(_, _)
Without(bs, types) ==
  IF bs = << >> THEN << >>
  ELSE LET b == Head(bs) IN
       (IF b.type \in types THEN << >>
        ELSE <<[b EXCEPT !.children = Without(b.children, types)]>>)
       \o Without(Tail(bs), types)

\* number of blocks of the given types in a block list, at every level
RECURSIVE CountOf(_, _)
CountOf(bs, types) ==
  IF bs = << >> THEN 0
  ELSE (IF Head(bs).type \in types THEN 1 ELSE 0)
       + CountOf(Head(bs).children, types) + CountOf(Tail(bs), types)

\* C15: with no extension target enabled, the rendering of a block list is the
\* rendering of the list with every bookmark and callout block removed; with a
\* target enabled, the template of every bookmark and callout block is executed.
C15_ExtendedBlocksOmittedUnlessEnabled ==
  tmpc = "done" =>
    IF ExtendedSyntaxEnabled(extra)
    THEN Len(SelectSeq(ContentBuffer,
                       LAMBDA o : o.Type \in {"bookmark", "callout"}))
           = CountOf(blocks, {"bookmark", "callout"})
    ELSE ContentBuffer =
           GenContentBlocks(Without(blocks, {"bookmark", "callout"}), 0,
                            FreshState(FALSE)).buf

\* C15 witness: extended syntax is off and a callout with a child stands between
\* two paragraphs, next to a bookmark
C15_Witness ==
  /\ tmpc = "done" /\ ~ExtendedSyntaxEnabled(extra)
  /\ Len(blocks) = 3
  /\ blocks[1].type = "paragraph" /\ blocks[1].children # << >>
  /\ blocks[1].children[1].type = "callout"
  /\ blocks[2].type = "callout" /\ blocks[2].children # << >>
  /\ blocks[3].type = "paragraph"
  /\ Len(ContentBuffer) >= 2

\* the template outputs without the SameBlockIdx they were given
TypeAndDepth(b) == [i \in DOMAIN b |-> <<b[i].Type, b[i].Depth>>]

\* C16: a block whose type has no template gives no error and no output, and
\* the blocks after it are rendered: the types and depths in the output are
\* those of the list without such blocks, and a rendering ends with an error
\* only for a bookmark.
C16_NoTemplateIsSkippedWithoutError ==
  /\ tmpc = "done" =>
       TypeAndDepth(ContentBuffer) =
         TypeAndDepth(GenContentBlocks(Without(blocks, {"unsupported"}), 0,
                        FreshState(ExtendedSyntaxEnabled(extra))).buf)
  /\ tmpc = "error" =>
       (ExtendedSyntaxEnabled(extra) /\ CountOf(blocks, {"bookmark"}) > 0)

\* C16 witness: a block without a template is followed by a paragraph whose
\* output is in the buffer
C16_Witness ==
  /\ tmpc = "done"
  /\ Len(blocks) >= 2
  /\ blocks[1].type = "unsupported" /\ blocks[2].type = "paragraph"
  /\ ContentBuffer # << >> /\ ContentBuffer[1].Type = "paragraph"

\* a block whose template is executed
IsRendered(b) ==
  /\ b.type \in {"paragraph", "callout", "bookmark"}
  /\ ExtendedSyntaxEnabled(extra) \/ b.type \notin {"bookmark", "callout"}

\* the blocks in depth-first pre-order: a block, then its children one level
\* deeper, then its next sibling
RECURSIVE PreOrder(_, _)
PreOrder(bs, depth) ==
  IF bs = << >> THEN << >>
  ELSE (IF IsRendered(Head(bs))
        THEN <<<<Head(bs).type, depth>>>> \o PreOrder(Head(bs).children, depth + 1)
        ELSE << >>)
       \o PreOrder(Tail(bs), depth)

IsPrefix(a, b) == Len(a) <= Len(b) /\ a = SubSeq(b, 1, Len(a))

\* C17: the output holds the rendered blocks in depth-first pre-order, each
\* block followed by its children at depth+1 and then by its next sibling; it
\* is a function of the block tree (and the extension setting).
C17_DepthFirstPreOrder ==
  /\ IsPrefix(TypeAndDepth(ContentBuffer), PreOrder(blocks, 0))
  /\ tmpc = "done" => TypeAndDepth(ContentBuffer) = PreOrder(blocks, 0)

\* C17 witness: a block with two children is followed by a sibling, all rendered
C17_Witness ==
  /\ tmpc = "done"
  /\ Len(blocks) >= 2
  /\ Len(blocks[1].children) = 2
  /\ Len(ContentBuffer) >= 4
  /\ ContentBuffer[2].Depth = 1 /\ ContentBuffer[3].Depth = 1
  /\ ContentBuffer[4].Depth = 0

\* the number of blocks of the same type that stand right before the i-th
RECURSIVE RunPos(_, _)
RunPos(bs, i) ==
  IF i = 1 \/ bs[i - 1].type # bs[i].type THEN 0 ELSE RunPos(bs, i - 1) + 1

\* the blocks of a sibling list that are not skipped for want of an extension
\* target
NotSkipped(bs) ==
  SelectSeq(bs, LAMBDA b : ExtendedSyntaxEnabled(extra)
                             \/ b.type \notin {"bookmark", "callout"})

\* the expected output, the k-th block of a run of same-type siblings getting
\* k-1; the runs are those of the whole sibling list, or (omit) of the list
\* without its skipped blocks
RECURSIVE Expected(_, _, _, _)
Expected(bs, i, depth, omit) ==
  IF i > Len(bs) THEN << >>
  ELSE (IF IsRendered(bs[i])
        THEN <<[Type |-> bs[i].type, Depth |-> depth,
                SameBlockIdx |-> RunPos(bs, i)]>>
             \o Expected(IF omit THEN NotSkipped(bs[i].children)
                         ELSE bs[i].children, 1, depth + 1, omit)
        ELSE << >>)
       \o Expected(bs, i + 1, depth, omit)

\* the template outputs without the auxiliary data of the bookmarks
TypeDepthIdx(b) ==
  [i \in DOMAIN b |-> [Type |-> b[i].Type, Depth |-> b[i].Depth,
                       SameBlockIdx |-> b[i].SameBlockIdx]]

\* C18 (as claimed): in every sibling list the k-th block of a run of
\* consecutive same-type blocks is rendered with SameBlockIdx k-1, and the
\* first block after a change of type with 0.
C18_SameBlockIdxCountsRunsOfSiblings ==
  tmpc = "done" => TypeDepthIdx(ContentBuffer) = Expected(blocks, 1, 0, FALSE)

\* C18 (amended): the same, the runs being those of the sibling list without
\* the bookmark and callout blocks skipped while no extension target is enabled.
C18_SameBlockIdxCountsRunsOfRenderedSiblings ==
  tmpc = "done" => TypeDepthIdx(ContentBuffer) = Expected(NotSkipped(blocks), 1, 0, TRUE)

\* C18 witness: three paragraphs in a row got 0, 1, 2, and in another list a
\* paragraph after a skipped callout continued the run
C18_Witness ==
  /\ tmpc = "done" /\ Len(blocks) = 3 /\ Len(ContentBuffer) >= 2
  /\ blocks[1].type = "paragraph" /\ blocks[3].type = "paragraph"
  /\ \/ /\ blocks[2].type = "paragraph"
        /\ ContentBuffer[Len(ContentBuffer)].SameBlockIdx = 2
     \/ /\ blocks[2].type = "callout" /\ ~ExtendedSyntaxEnabled(extra)
        /\ ContentBuffer[Len(ContentBuffer)].SameBlockIdx = 1

\* the content of a text span, or its link form [content](url)
SpanBody(t) ==
  IF t.Link = << >> THEN t.Content
  ELSE <<"[">> \o t.Content \o <<"]", "(">> \o t.Link[1] \o <<")">>

\* C19: a text span whose annotations have code set is rendered as its content
\* (or link form) between single back-ticks, whatever bold, italic, underline
\* and strikethrough are.
C19_CodeWrapsInBackticksOnly ==
  \A i \in DOMAIN richOut :
     LET t == richText[i] IN
     (t.Type = "text" /\ t.Annotations # << >> /\ t.Annotations[1].Code)
        => richOut[i] = <<Backtick>> \o SpanBody(t) \o <<Backtick>>

\* C19 witness: a linked span with code, bold, italic and underline was converted
C19_Witness ==
  \E i \in DOMAIN richOut :
     LET t == richText[i] IN
     /\ t.Type = "text" /\ t.Link # << >> /\ t.Annotations # << >>
     /\ t.Annotations[1].Code /\ t.Annotations[1].Bold
     /\ t.Annotations[1].Italic /\ t.Annotations[1].Underline

\* the emphasis markers of C20 around x
C20_Emphasis(a, x) ==
  IF a.Bold /\ a.Italic THEN <<"*", "*", "*">> \o x \o <<"*", "*", "*">>
  ELSE IF a.Bold THEN <<"*", "*">> \o x \o <<"*", "*">>
  ELSE IF a.Italic THEN <<"*">> \o x \o <<"*">>
  ELSE x

\* C20: a text span without code is rendered with its text wrapped in ***x***
\* for bold and italic, **x** for bold, *x* for italic and no emphasis marker
\* for neither (inside the underline or strikethrough marks, if any); a span
\* without annotations is rendered as its unformatted content.
C20_BoldItalicEmphasis ==
  \A i \in DOMAIN richOut :
     LET t == richText[i] IN
     t.Type = "text" =>
       IF t.Annotations = << >> THEN richOut[i] = SpanBody(t)
       ELSE LET a == t.Annotations[1] IN
            ~a.Code =>
              /\ \E w \in {<< >>, <<"_", "_">>, <<"~", "~">>} :
                   richOut[i] = w \o C20_Emphasis(a, SpanBody(t)) \o w
              /\ (~a.Underline /\ ~a.Strikethrough) =>
                   richOut[i] = C20_Emphasis(a, SpanBody(t))

\* C20 witness: a list of a bold italic span and a span without annotations was
\* converted
C20_Witness ==
  /\ tmpc = "richDone" /\ Len(richOut) = 2
  /\ richText[1].Type = "text" /\ richText[1].Annotations # << >>
  /\ richText[1].Annotations[1].Bold /\ richText[1].Annotations[1].Italic
  /\ ~richText[1].Annotations[1].Code
  /\ richText[2].Type = "text" /\ richText[2].Annotations = << >>


\* C21: a text span without code is rendered as its bold/italic result between
\* __ and __ when underline is set, between ~~ and ~~ when underline is not set
\* and strikethrough is, and bare when neither is set; with both set it gets
\* the underline marks and no strikethrough mark.
C21_UnderlineElseStrikethrough ==
  \A i \in DOMAIN richOut :
     LET t == richText[i] IN
     (t.Type = "text" /\ t.Annotations # << >> /\ ~t.Annotations[1].Code) =>
        LET a == t.Annotations[1]
            e == C20_Emphasis(a, SpanBody(t))
        IN /\ a.Underline => richOut[i] = <<"_", "_">> \o e \o <<"_", "_">>
           /\ (~a.Underline /\ a.Strikethrough) =>
                 richOut[i] = <<"~", "~">> \o e \o <<"~", "~">>
           /\ (~a.Underline /\ ~a.Strikethrough) => richOut[i] = e
           /\ (a.Underline /\ a.Strikethrough) =>
                 \A k \in DOMAIN richOut[i] : richOut[i][k] # "~"

\* C21 witness: a bold span with underline and strikethrough and a span with
\* strikethrough only were converted
C21_Witness ==
  /\ tmpc = "richDone" /\ Len(richOut) = 2
  /\ richText[1].Type = "text" /\ richText[1].Annotations # << >>
  /\ richText[1].Annotations[1].Underline /\ richText[1].Annotations[1].Strikethrough
  /\ richText[1].Annotations[1].Bold /\ ~richText[1].Annotations[1].Code
  /\ richText[2].Type = "text" /\ richText[2].Annotations # << >>
  /\ ~richText[2].Annotations[1].Underline /\ richText[2].Annotations[1].Strikethrough
  /\ ~richText[2].Annotations[1].Code


\* the strings of a sequence, one after the other
RECURSIVE Concat(_)
Concat(ss) == IF ss = << >> THEN << >> ELSE Head(ss) \o Concat(Tail(ss))

\* the characters emphFormat wraps a text with
EmphasisMarks == {"*", "_", "~", Backtick}

\* C22: what ConvertRichText returns is the renderings of its spans one after
\* the other in the order of the spans; an equation span and a mention span
\* render as the empty string, and a text span with a link renders as
\* [content](url) with the emphasis marks around it.
C22_ConcatenationInOrder ==
  /\ buf = Concat(richOut)
  /\ \A i \in DOMAIN richOut :
       LET t == richText[i]
           link == <<"[">> \o t.Content \o <<"]", "(">> \o t.Link[1] \o <<")">>
       IN /\ t.Type \in {"equation", "mention"} => richOut[i] = << >>
          /\ (t.Type = "text" /\ t.Link # << >>) =>
               \E k \in 0..Len(richOut[i]) :
                  /\ Len(richOut[i]) = 2 * k + Len(link)
                  /\ SubSeq(richOut[i], k + 1, k + Len(link)) = link
                  /\ \A j \in 1..k : /\ richOut[i][j] \in EmphasisMarks
                                     /\ richOut[i][Len(richOut[i]) + 1 - j]
                                           \in EmphasisMarks

\* C22 witness: a bold linked span followed by a span without annotations was
\* converted and returned
C22_Witness ==
  /\ tmpc = "richDone" /\ Len(richText) = 2
  /\ richText[1].Type = "text" /\ richText[1].Link # << >>
  /\ richText[1].Annotations # << >> /\ richText[1].Annotations[1].Bold
  /\ ~richText[1].Annotations[1].Code
  /\ richText[2].Type = "text" /\ richText[2].Annotations = << >>
  /\ richText[2].Link = << >>
  /\ buf = <<"*", "*", "[", "x", "]", "(", "u", ")", "*", "*", "x">>


\* the place of the first bookmark in the block list, 0 when there is none
FirstBookmark ==
  IF \E i \in DOMAIN blocks : blocks[i].type = "bookmark"
  THEN CHOOSE i \in DOMAIN blocks :
         /\ blocks[i].type = "bookmark"
         /\ \A j \in 1..(i - 1) : blocks[j].type # "bookmark"
  ELSE 0

\* C23: when the preview of a bookmark that is to be rendered cannot be
\* fetched, GenerateTo returns an error after one fetch, with the output of the
\* blocks before that bookmark and nothing of the bookmark or of what follows
\* it in the buffer.
C23_FailedPreviewStopsRendering ==
  (/\ tmpc \in {"done", "error"}
   /\ net.down /\ ExtendedSyntaxEnabled(extra) /\ FirstBookmark # 0) =>
     /\ tmpc = "error"
     /\ net.fetches = 1
     /\ \A i \in DOMAIN ContentBuffer : ContentBuffer[i].Type # "bookmark"
     /\ ContentBuffer =
          GenContentBlocks(SubSeq(blocks, 1, FirstBookmark - 1), 0,
                           FreshState(TRUE)).buf

\* C23 witness: the fetch failed for a bookmark that stands between two
\* paragraphs, and the first paragraph's output is all there is
C23_Witness ==
  /\ tmpc = "error" /\ net.down /\ net.fetches = 1
  /\ Len(blocks) = 3 /\ blocks[1].type = "paragraph"
  /\ blocks[2].type = "bookmark" /\ blocks[3].type = "paragraph"
  /\ Len(ContentBuffer) >= 1


\* the download or the local save of the page's cover image failed
CoverFailed == page.Cover # << >> /\ (net.down \/ net.diskFull) /\ net.fetches > 0

\* C24: when the download or the local save of the page's cover image fails,
\* the page's generation is aborted with an error: it never gets as far as
\* writing the front matter.
C24_FailedCoverAbortsGeneration ==
  CoverFailed => tmpc \notin {"injected", "frontDone"}

\* the keys of the front matter GenFrontMatter wrote
WrittenKeys == IF ret = << >> THEN {} ELSE DOMAIN ret[2]

\* a property value of a type the front matter supports, and not null
C28_SupportedAndSet(prop) ==
  \/ prop.type \in {"[]SelectOptions", "[]RichText"}
  \/ /\ prop.type \in {"*SelectOptions", "*time.Time", "*User", "*string",
                       "*float64"}
     /\ prop.val # << >>
  \/ /\ prop.type = "*Date" /\ prop.val # << >>
     /\ (prop.val[1].Start # ZeroTime \/ prop.val[1].End # ZeroTime)

\* C28: the front matter written for a page has, besides the cover key, exactly
\* the lower-cased names of the properties whose value has a supported type and
\* is not null (a date: has a start or an end); a property with an unsupported
\* or null value adds no key, and the builder never ends in an error.
C28_KeysOfSupportedProperties ==
  /\ tmpc # "error"
  /\ tmpc = "frontDone" =>
       WrittenKeys \ {CoverKey} =
         {ToLower(name) : name \in {n \in DOMAIN page.Properties :
                                      C28_SupportedAndSet(page.Properties[n])}}

\* C28 witness: a page with a multi-select without options named T and a null
\* select named t was written with the one key t
C28_Witness ==
  /\ tmpc = "frontDone" /\ page.Cover = << >>
  /\ DOMAIN page.Properties = {<<"T">>, <<"t">>}
  /\ page.Properties[<<"T">>] = [type |-> "[]SelectOptions", val |-> << >>]
  /\ page.Properties[<<"t">>] = [type |-> "*SelectOptions", val |-> << >>]
  /\ WrittenKeys = {<<"t">>}


\* the slug of C25: the title lower-cased and with hyphens for spaces, without
\* its characters outside ASCII when strip is set
RECURSIVE C25_Slug(_, _)
C25_Slug(title, strip) ==
  IF title = << >> THEN << >>
  ELSE LET c == Head(title)
           rest == C25_Slug(Tail(title), strip)
       IN IF c \in {UpperEAcute, LowerEAcute, BadByte} /\ strip THEN rest
          ELSE IF c = " " THEN <<"-">> \o rest
          ELSE <<LowerChar(c)>> \o rest

\* the name of C25 for slug s
C25_Name(s) ==
  IF ret.GroupByMonth
  THEN FormatDate(page.CreatedTime) \o <<"/">> \o s \o <<".md">>
  ELSE s \o <<".md">>

C26_UnparsableCacheAbortsRun ==
  /\ [](/\ \A f \in {NoFile, CorruptFile, cacheFile} :
             loadCacheAt(<< >>, f) = [err |-> FALSE, cache |-> EmptyMap]
        /\ loadCacheAt(<<"c">>, NoFile) = [err |-> FALSE, cache |-> EmptyMap]
        /\ loadCacheAt(<<"c">>, CorruptFile).err)
  /\ []((config.incremental /\ cacheFile = CorruptFile) =>
          /\ fetched = {} /\ statusCalls = {} /\ DOMAIN generated = {}
          /\ files = {} /\ blocksOf = 0
          /\ pc \in {"idle", "query", "filter", "loadcache", "done"})
  /\ [][(pc = "loadcache" /\ config.incremental) =>
          IF cacheFile = CorruptFile
          THEN pc' = "done" /\ result' = "error" /\ cacheFile' = cacheFile
          ELSE cacheFile = NoFile => (cache' = EmptyMap /\ pc' = "cachecheck")]_vars

\* C26 witness: an incremental run with pages to process ended with the error
\* of loading a cache file that cannot be parsed
C26_Witness ==
  /\ pc = "done" /\ result = "error" /\ config.incremental
  /\ cacheFile = CorruptFile /\ pagesToProcess # << >>


\* the first k pages of the run's list
FirstPages(k) == {pagesToProcess[i] : i \in 1..k}

\* C29: with the parallelism flag 0, whatever the parallelize flag, the run is
\* serial: no page task is started and nothing of the parallel branch is used,
\* and the pages are fetched and rendered one at a time in the order of the
\* list.
C29_ParallelismZeroForcesSerial ==
  \A parallelizeFlag \in BOOLEAN :
     (/\ config.parallelize = RootCmdParallel(parallelizeFlag, 0).parallelize
      /\ config.parallelism = RootCmdParallel(parallelizeFlag, 0).parallelism) =>
        /\ pc # "parallel"
        /\ \A p \in Pages : task[p] = InitialTask
        /\ sem = 0 /\ wg = 0 /\ mu = 0 /\ errCh = << >>
        /\ pc = "serial" =>
             (fetched = FirstPages(idx - 1) /\ DOMAIN generated = FirstPages(idx - 1))
        /\ pc = "serialHandle" =>
             /\ fetched = FirstPages(idx) /\ DOMAIN generated = FirstPages(idx - 1)
             /\ blocksOf = pagesToProcess[idx]
        /\ pc = "serialStatus" =>
             (fetched = FirstPages(idx) /\ DOMAIN generated = FirstPages(idx))

\* C29 witness: a run with the configuration that parallelism 0 and parallelize
\* set give is rendering the second page of its list after the first
C29_Witness ==
  /\ config.parallelize = RootCmdParallel(TRUE, 0).parallelize
  /\ config.parallelism = RootCmdParallel(TRUE, 0).parallelism
  /\ pc = "serialHandle" /\ idx = 2 /\ Len(pagesToProcess) = 2
  /\ DOMAIN generated = {pagesToProcess[1]}


\* C30: in every configuration, month grouping without the date directory
\* included, a processed page gets its file at postSavePath/[YYYY-MM-DD/]slug.md:
\* when generate is called for the page the file can be created at that path,
\* and a page recorded as generated was written there.
C30_FileAtPathInEveryConfiguration ==
  /\ pc = "serialHandle" => CanCreate(outputRelPath(blocksOf))
  /\ \A p \in DOMAIN generated :
       \E t \in Titles :
          generated[p] = generateArticleFilename(IF t = << >> THEN PageID(p) ELSE t,
                                                 CreatedTime(p), config.groupByMonth)


\* C31: two image URLs that differ in host or in path are saved under
\* different file names in the image save directory.
C31_FilenamesNeverCollide ==
  \A i \in DOMAIN ret, j \in DOMAIN ret :
     (blocks[i].URL.Host # blocks[j].URL.Host
        \/ blocks[i].URL.Path # blocks[j].URL.Path) => ret[i] # ret[j]


\* C32: a run that entered the parallel branch leaves it: the dispatcher's
\* wait returns (or the process stops), and as long as the run is in the branch
\* the dispatcher or a page task can make a step, so that none of them waits
\* for ever on the semaphore, the mutex or the error channel; the error
\* channel has room for the error of every task that can still fail.
C32_ParallelRunTerminates ==
  /\ (pc = "parallel") ~> (pc \in {"save", "done"})
  /\ [](pc = "parallel" => ENABLED ParallelStep)
  /\ []((pc = "parallel" /\ \E t \in Pages : task[t].pc \in {"fetch", "handle"})
          => Len(errCh) < ErrChCap)

\* C32 witness: the wait of a parallel run returned after two page tasks had
\* sent an error
C32_Witness ==
  /\ pc = "done" /\ result = "error" /\ config.parallelize
  /\ Len(errCh) = 2 /\ wg = 0 /\ sem = 0


(***************************************************************************)
(* C33: at the end of a successful incremental run, the file at the output *)
(* path of every page processed in that run exists: the stale-file         *)
(* deletion done for one page never removes another page's current output. *)
(***************************************************************************)
C33_ProcessedPagesHaveTheirFile ==
  (pc = "done" /\ result = "ok" /\ config.incremental /\ ~dryRun) =>
     \A p \in DOMAIN generated : generated[p] \in files


(***************************************************************************)
(* C34: in parallel mode no two page tasks are ever inside handlePage for  *)
(* the same output file at the same time: the output paths of the pages of *)
(* one run are pairwise distinct.                                          *)
(***************************************************************************)
C34_TasksWriteDistinctFiles ==
  pc = "parallel" =>
     \A t \in Pages, u \in Pages :
        (t # u /\ task[t].pc = "handle" /\ task[u].pc = "handle")
           => outputRelPath(t) # outputRelPath(u)


(***************************************************************************)
(* C35: for pages with pairwise distinct output paths and no failing       *)
(* operation, a parallel run ends as the serial run from the same cache    *)
(* and filesystem does: same persisted cache, same output files, same      *)
(* status-updated pages, same counts.                                      *)
(***************************************************************************)
\* the serial loop (part_001:451-478) over the first i pages, none failing
RECURSIVE SerialFiles(_, _)
SerialFiles(i, f) ==
  IF i = 0 THEN f
  ELSE LET g == SerialFiles(i - 1, f)
           p == pagesToProcess[i]
           prev == previousOutputRelPath(loaded, p)
           out == outputRelPath(p)
       IN (g \ (IF config.incremental /\ prev # << >> /\ prev # out /\ prev \in g
                THEN {prev} ELSE {}))
            \cup {out}

RECURSIVE SerialCache(_)
SerialCache(i) ==
  IF i = 0 THEN loaded
  ELSE CachePut(SerialCache(i - 1), pagesToProcess[i], outputRelPath(pagesToProcess[i]))

DistinctOutputPaths ==
  \A i \in DOMAIN pagesToProcess, j \in DOMAIN pagesToProcess :
     i # j => outputRelPath(pagesToProcess[i]) # outputRelPath(pagesToProcess[j])

CleanParallelRun ==
  /\ pc = "done" /\ result = "ok" /\ config.parallelize /\ ~dryRun
  /\ Len(pagesToProcess) > 0 /\ DistinctOutputPaths
  /\ failedGen = {} /\ ~statusFailed

C35_ParallelEqualsSerial ==
  CleanParallelRun =>
     /\ files = SerialFiles(Len(pagesToProcess), fs0.files)
     /\ cache = SerialCache(Len(pagesToProcess))
     /\ config.incremental => cacheFile = saveCache(SerialCache(Len(pagesToProcess)))
     /\ statusCalls = {pagesToProcess[i] : i \in DOMAIN pagesToProcess}
     /\ unchangedSkipped = Cardinality(skipped)


(***************************************************************************)
(* Run of generator/generator.go: the package's Run(config), which has no  *)
(* cache and no dry run.  Its goroutines only fetch the block trees; Run   *)
(* itself generates each page and updates its status.                      *)
(***************************************************************************)
\* what the rest of the module holds while this Run is at work
notGen == <<config, pages, files, dirs, cacheFile, pc, runs, dryRun, result, runVars,
            histVars, stable, rerun, blocks, extra, ContentBuffer, tmpc, net,
            cacheVars, richVars, frontVars>>

InitGen ==
  /\ RunOff
  /\ blocks = << >>
  /\ extra = NewExtra
  /\ ContentBuffer = << >>
  /\ tmpc = "gen"
  /\ net = NoNet
  /\ RichOff
  /\ FrontOff
  /\ cachePath = << >>
  /\ runCache = << >>
  /\ \E pz \in BOOLEAN, n \in 0..NumPages :
       gen = [pc |-> "query", Parallelize |-> pz, Parallelism |-> n,
              i |-> 1,                     \* the loop index over q.Results
              sem |-> {},                  \* pages whose goroutine holds a slot of sem
              results |-> << >>,           \* the channel results
              received |-> 0,              \* iterations of the receiving loop
              stage |-> "next", res |-> 0, \* the page Run is handling
              calls |-> [p \in Pages |-> 0],        \* calls of changeStatus
              outcome |-> [p \in Pages |-> "none"], \* what happened to the page
              ret |-> "none"]

\* return from Run
GenReturn(g, r) == [g EXCEPT !.pc = "done", !.ret = r]

\* queryDatabase
GenQuery ==
  /\ gen.pc = "query"
  /\ \E err \in BOOLEAN :
       gen' = IF err THEN GenReturn(gen, "error")
              ELSE [gen EXCEPT !.pc = IF gen.Parallelize THEN "parallel" ELSE "serial"]
  /\ UNCHANGED notGen

\* sem <- struct{}{}; go func(i, page)
GenDispatch ==
  /\ gen.pc = "parallel"
  /\ gen.i <= NumPages
  /\ Cardinality(gen.sem) < gen.Parallelism
  /\ gen' = [gen EXCEPT !.sem = @ \cup {gen.i}, !.i = @ + 1]
  /\ UNCHANGED notGen

\* the goroutine of page t: queryBlockChildren, results <- result{...}, <-sem
GenFetch(t) ==
  /\ gen.pc = "parallel"
  /\ t \in gen.sem
  /\ \E err \in BOOLEAN :
       gen' = [gen EXCEPT !.results = Append(@, [page |-> t, err |-> err]),
                          !.sem = @ \ {t},
                          !.outcome[t] = IF err THEN "fetchFailed" ELSE @]
  /\ UNCHANGED notGen

\* res := <-results, and the check of res.err
GenReceive ==
  /\ gen.pc = "parallel"
  /\ gen.i > NumPages
  /\ gen.stage = "next"
  /\ gen.received < NumPages
  /\ gen.results # << >>
  /\ LET res == Head(gen.results)
     IN gen' = IF res.err
               THEN GenReturn([gen EXCEPT !.results = Tail(@)], "error")
               ELSE [gen EXCEPT !.results = Tail(@), !.received = @ + 1,
                                !.res = res.page, !.stage = "handle"]
  /\ UNCHANGED notGen

\* the sequential loop: queryBlockChildren of page i
GenSerialFetch ==
  /\ gen.pc = "serial"
  /\ gen.stage = "next"
  /\ gen.i <= NumPages
  /\ \E err \in BOOLEAN :
       gen' = IF err
              THEN GenReturn([gen EXCEPT !.outcome[gen.i] = "fetchFailed"], "error")
              ELSE [gen EXCEPT !.res = gen.i, !.stage = "handle"]
  /\ UNCHANGED notGen

\* handlePage: generate, and on success changeStatus
GenHandlePage ==
  /\ gen.pc \in {"serial", "parallel"}
  /\ gen.stage = "handle"
  /\ \E err \in BOOLEAN :
       gen' = IF err
              THEN GenReturn([gen EXCEPT !.outcome[gen.res] = "generateFailed"], "error")
              ELSE [gen EXCEPT !.outcome[gen.res] = "generated",
                               !.calls[gen.res] = @ + 1,
                               !.stage = "status"]
  /\ UNCHANGED notGen

\* if changeStatus(client, page, config.Notion) { changed++ }, after handlePage
GenChangeStatus ==
  /\ gen.pc \in {"serial", "parallel"}
  /\ gen.stage = "status"
  /\ gen' = [gen EXCEPT !.calls[gen.res] = @ + 1,
                        !.stage = "next",
                        !.i = IF gen.pc = "serial" THEN @ + 1 ELSE @]
  /\ UNCHANGED notGen

\* the loop is over: return nil
GenReturnNil ==
  /\ gen.stage = "next"
  /\ \/ gen.pc = "serial" /\ gen.i > NumPages
     \/ gen.pc = "parallel" /\ gen.received = NumPages
  /\ gen' = GenReturn(gen, "ok")
  /\ UNCHANGED notGen

NextGen ==
  \/ GenQuery
  \/ GenDispatch
  \/ \E t \in Pages : GenFetch(t)
  \/ GenReceive
  \/ GenSerialFetch
  \/ GenHandlePage
  \/ GenChangeStatus
  \/ GenReturnNil

SpecGen == InitGen /\ [][NextGen]_vars

(***************************************************************************)
(* C36: in every run, serial or parallel, changeStatus is called exactly   *)
(* once for each page whose generation succeeded, and never for a page     *)
(* whose fetch or generation failed.                                       *)
(***************************************************************************)
C36_StatusUpdatedExactlyOnce ==
  gen.pc # "off" =>
     \A p \in Pages :
        /\ gen.calls[p] <= 1
        /\ gen.outcome[p] \in {"fetchFailed", "generateFailed"} => gen.calls[p] = 0
        /\ (gen.ret = "ok" /\ gen.outcome[p] = "generated") => gen.calls[p] = 1


(***************************************************************************)
(* C37: the auxiliary data (Title, Description, Image) a bookmark template *)
(* sees comes only from that bookmark's own link preview; what was         *)
(* injected for an earlier bookmark is visible neither to a later bookmark *)
(* whose preview has no image nor to any other later block.                *)
(***************************************************************************)
C37_BookmarkDataIsTheBlocksOwn ==
  \A i \in DOMAIN ContentBuffer :
     LET o == ContentBuffer[i] IN
     IF o.Type = "bookmark"
     THEN LET og == Fetch(o.URL) IN
          /\ o.Title = og.Title
          /\ o.Description = og.Description
          /\ o.Image = IF og.Image = << >> THEN NoValue ELSE og.Image[1]
     ELSE /\ o.Title = NoValue
          /\ o.Description = NoValue
          /\ o.Image = NoValue

(***************************************************************************)
(* C38: the SameBlockIdx counter of a sibling list is not disturbed by     *)
(* what lies between or below its items: rendering the children of an item *)
(* does not change it, a sibling skipped because extended syntax is        *)
(* disabled does not reset it, a sibling without a template does reset it. *)
(***************************************************************************)
\* the place in the output of the i-th top-level block, when it is rendered
OutputPlace(i) == Len(PreOrder(SubSeq(blocks, 1, i - 1), 0)) + 1

\* the SameBlockIdx the i-th top-level block was rendered with
IdxOf(i) == ContentBuffer[OutputPlace(i)].SameBlockIdx

\* a block left out because no extension target is enabled
IsSkipped(b) == ~ExtendedSyntaxEnabled(extra) /\ b.type \in {"bookmark", "callout"}

C38_SiblingCounterUndisturbed ==
  tmpc = "done" =>
     /\ \A i \in 1..(Len(blocks) - 1) :
          (/\ IsRendered(blocks[i]) /\ IsRendered(blocks[i + 1])
           /\ blocks[i].type = blocks[i + 1].type)
             => IdxOf(i + 1) = IdxOf(i) + 1
     /\ \A i \in 1..(Len(blocks) - 2) :
          (/\ IsRendered(blocks[i]) /\ IsRendered(blocks[i + 2])
           /\ blocks[i].type = blocks[i + 2].type)
             => /\ IsSkipped(blocks[i + 1]) => IdxOf(i + 2) = IdxOf(i) + 1
                /\ blocks[i + 1].type = "unsupported" => IdxOf(i + 2) = 0

\* C38 witness: a paragraph with two children, a skipped callout with a child
\* and a paragraph were rendered, the second paragraph with index 1
C38_Witness ==
  /\ tmpc = "done" /\ Len(blocks) = 3
  /\ blocks[1].type = "paragraph" /\ Len(blocks[1].children) = 2
  /\ IsSkipped(blocks[2]) /\ blocks[2].children # << >>
  /\ blocks[3].type = "paragraph"
  /\ Len(ContentBuffer) = 4
  /\ ContentBuffer[1].SameBlockIdx = 0
  /\ ContentBuffer[4].SameBlockIdx = 1

====
